---- MODULE Spec2Model ----
(***************************************************************************)
(* A model of the crypto-trading-bot core: the Position Manager            *)
(* (coins_handler, src/src/handle_owned_coins.py), the per-asset signal    *)
(* pipeline (findSignal, src/src/find_signal.py, with update_pivots,       *)
(* update_support_resistance and can_trade of src/src/utils.py) and the    *)
(* SQLite store (src/src/datastore.py).                                    *)
(*                                                                         *)
(* Prices are integers in thousandths of a quote unit (100.3 is 100300);   *)
(* the inputs are chosen so that every product with 0.618, 1.618, 2.618    *)
(* and every halving is exact.  Times are epoch milliseconds counted from  *)
(* the start of the run.  Quantities are integers divisible by four.       *)
(***************************************************************************)
EXTENDS Integers, Sequences, FiniteSets, TLC

VARIABLES
    \* ---- Position Manager and venue
    trades_db,      \* the trades table of the store, a sequence of Trade rows
    trades,         \* coins_handler's in-memory list `trades` during a pass
    pc,             \* where coins_handler is: idle, enter, manage, aborted
    idx,            \* the loop position in `trades` (1-based)
    orders,         \* the venue's order book: order id n is orders[n]
    calls,          \* broker calls issued in the current loop iteration
    outcome,        \* which branch the last step of the loop took
    bar,            \* the bar low compared with the active stop in this iteration (0: none)
    passes,         \* number of coins_handler passes started
    sold,           \* ledger kept by SpecLedger: per entry order id, the
                    \* quantity of the MARKET sells issued for its Trade
    \* ---- signal pipeline (findSignal) and its store
    now,            \* execute_ms of the current cycle
    cycles,         \* number of findSignal runs started
    pivots_db,      \* the pivots table of the asset, a set of rows
    opps_db,        \* the opportunities table of the asset, a set of rows
    pivots,         \* findSignal's in-memory list `pivots`
    opportunities,  \* findSignal's in-memory list `opportunities`
    new_trades,     \* findSignal's in-memory list `trades`
    trend,          \* the trend of the cycle
    spc,            \* where findSignal is: idle, loop, aborted
    oidx,           \* can_trade's position in `opportunities` (1-based)
    entries,        \* log: the opportunity each accepted entry order was sized from
    matched,        \* log: the pivot pairs update_support_resistance emitted
    \* ---- main_loop and its worker pool
    mpc,            \* where main_loop is: top, market, submit, result, shutdown,
                    \* handler, managing, sleep
    coins,          \* coins_to_process of the cycle, a sequence of assets
    fi,             \* position in coins_to_process / futures (1-based)
    task,           \* per asset, the state of its run_find_signal task
    handled,        \* number of coins_handler invocations in the cycle
    \* ---- RoostooClient._request
    req             \* the call in progress: its position, its retry counter,
                    \* the responses of its attempts, its waits and its result

pmvars == <<trades_db, trades, pc, idx, orders, calls, outcome, bar, passes>>

sigvars == <<now, cycles, pivots_db, opps_db, pivots, opportunities,
             new_trades, trend, spc, oidx, entries, matched>>

loopvars == <<mpc, coins, fi, task, handled>>

vars == <<pmvars, sigvars, loopvars, sold, req>>

----------------------------------------------------------------------------
(* Bounds and input sets                                                   *)

MaxPasses == 2
MaxCycles == 3
MaxPivots == 4

\* the assets of the exchange's /USD pairs
Assets == {"BTC", "ETH"}

\* no _request call is in progress
NoRequest ==
    [pc |-> "idle", retry |-> 0, log |-> << >>, wait |-> 0, slept |-> << >>,
     result |-> "pending"]

\* main_loop has not started a cycle
LoopIdle ==
    /\ mpc = "top"
    /\ coins = << >>
    /\ fi = 1
    /\ task = [a \in Assets |-> "idle"]
    /\ handled = 0

\* the quantity of an entry order (round(usd * 0.01 / price, precision))
Quantities == {8}

\* [minimum, maximum, support_line] of opportunities can_trade sizes:
\* a matured range (the spec's scenario D), a range fixed by the pivot that
\* set the minimum (maximum = minimum), and a minimum with no maximum yet.
ScenarioD == [minimum |-> 90000, maximum |-> 110000, support_line |-> 100000]

Ranges ==
    { ScenarioD,
      [minimum |-> 99000, maximum |-> 99000,  support_line |-> 100000],
      [minimum |-> 99000, maximum |-> 0,      support_line |-> 100000] }

\* lows of the latest bar: below every stop, between the stops, above all
Lows == {10000, 96000, 120000}

----------------------------------------------------------------------------
(* Trade ladder, utils.can_trade                                           *)

FibRange(o) == o.maximum - o.minimum

NewTrade(o, oid, qty) ==
    [ order_id     |-> oid,
      quantity     |-> qty,
      stop_loss    |-> << (o.minimum + o.support_line) \div 2,
                          o.minimum + (FibRange(o) * 618) \div 1000,
                          FibRange(o) >>,
      profit_level |-> << FibRange(o),
                          (FibRange(o) * 1618) \div 1000,
                          (FibRange(o) * 2618) \div 1000 >>,
      tp_order_ids |-> << >>,
      entry        |-> 0 ]

----------------------------------------------------------------------------
(* Position Manager, handle_owned_coins.coins_handler                      *)

\* sum(bool(x) for x in t.profit_level)
Remaining(level) == Cardinality({i \in DOMAIN level : level[i] # 0})

\* the closed test reads stop_loss instead of profit_level
IsClosedByStops(t) == t.entry = 1 /\ Remaining(t.stop_loss) = 0

\* t.entry == 1 and not sum(bool(x) for x in t.profit_level)
IsClosed(t) == t.entry = 1 /\ Remaining(t.profit_level) = 0

\* t.quantity * SALES_RATIO[i]: 50%, 25% and the remainder
SalesQty(qty, i) == IF i = 1 THEN qty \div 2 ELSE qty \div 4

\* t.quantity * {3: 1.00, 2: 0.50, 1: 0.25, 0: 0.00}.get(remaining, 0.0)
RemainQty(qty, remaining) ==
    CASE remaining = 3 -> qty
      [] remaining = 2 -> qty \div 2
      [] remaining = 1 -> qty \div 4
      [] OTHER         -> 0

\* db.fetch_trades(): SELECT ... FROM trades WHERE quantity > 0
FetchTrades(db) == SelectSeq(db, LAMBDA t : t.quantity > 0)

\* one row of insert_trades: INSERT ... ON CONFLICT(order_id) DO UPDATE
UpsertTrade(db, t) ==
    IF \E i \in DOMAIN db : db[i].order_id = t.order_id
    THEN [i \in DOMAIN db |-> IF db[i].order_id = t.order_id THEN t ELSE db[i]]
    ELSE Append(db, t)

RECURSIVE InsertTrades(_, _)
InsertTrades(db, ts) ==
    IF ts = << >> THEN db
    ELSE InsertTrades(UpsertTrade(db, Head(ts)), Tail(ts))

\* every order is reported FILLED
StatusFilled(oid) == "FILLED"

\* the status query_order reports for an order the venue knows
StatusOf(oid) == orders[oid].status

Call(op, id, qty, res) == [op |-> op, id |-> id, qty |-> qty, res |-> res]

\* the k LIMIT sells the venue accepted, as rows of its book
LimitSells(t, k) ==
    [i \in 1..k |-> [side |-> "SELL", type |-> "LIMIT",
                     qty |-> SalesQty(t.quantity, i),
                     price |-> t.profit_level[i], status |-> "PENDING"]]

\* the order ids returned for them
NewIds(k) == [i \in 1..k |-> Len(orders) + i]

\* the placement loop's calls: k accepted legs, then leg k+1 answered `fail`
PlaceCalls(t, k, fail) ==
    [i \in 1..(IF k < 3 THEN k + 1 ELSE 3) |->
        Call("place_limit", IF i <= k THEN Len(orders) + i ELSE 0,
             SalesQty(t.quantity, i), IF i <= k THEN "OK" ELSE fail)]

\* a consumed rung is removed instead of zeroed
ZeroFilledPopped(level, t, n) ==
    LET keep == {i \in DOMAIN level :
                    ~(i <= n /\ i <= Len(t.tp_order_ids)
                      /\ StatusOf(t.tp_order_ids[i]) = "FILLED")}
    IN IF keep = DOMAIN level THEN level
       ELSE IF keep = {} THEN << >>
       ELSE [k \in 1..Cardinality(keep) |->
               level[CHOOSE i \in keep : Cardinality({j \in keep : j < i}) = k - 1]]

\* t.profit_level[i] = 0.0 ; t.stop_loss[i] = 0.0 for the rungs reported FILLED
ZeroFilled(level, t, n) ==
    [i \in DOMAIN level |->
        IF i <= n /\ i <= Len(t.tp_order_ids) /\ StatusOf(t.tp_order_ids[i]) = "FILLED"
        THEN 0 ELSE level[i]]

\* only the profit level of a filled rung is zeroed
AfterFillsProfitOnly(t, n) ==
    [t EXCEPT !.profit_level = ZeroFilled(t.profit_level, t, n)]

\* the ladder after the fill queries of rungs 1..n
AfterFills(t, n) ==
    [t EXCEPT !.profit_level = ZeroFilled(t.profit_level, t, n),
              !.stop_loss    = ZeroFilled(t.stop_loss, t, n)]

\* the queries of rungs 1..n, the n-th unanswered when noneAt = n
FillCalls(t, n, noneAt) ==
    [i \in 1..n |-> Call("query", t.tp_order_ids[i], 0,
                         IF i = noneAt THEN "NONE" ELSE StatusOf(t.tp_order_ids[i]))]

\* t.stop_loss[len(t.stop_loss) - remaining], 1-based; needs remaining > 0
ActiveStop(t) == t.stop_loss[Len(t.stop_loss) - Remaining(t.profit_level) + 1]

\* latest_low <= t.stop_loss[len(t.stop_loss) - remaining]
StopHit(t, low) == low <= ActiveStop(t)

CancelCalls(t) ==
    [i \in 1..Len(t.tp_order_ids) |-> Call("cancel", t.tp_order_ids[i], 0, "OK")]

\* the venue's book after cancel_order on each of the trade's TP orders
Cancelled(t) ==
    [o \in DOMAIN orders |->
        IF (\E i \in DOMAIN t.tp_order_ids : t.tp_order_ids[i] = o)
           /\ orders[o].status = "PENDING"
        THEN [orders[o] EXCEPT !.status = "CANCELLED"]
        ELSE orders[o]]

\* the MARKET sell of the remainder, issued when remain_qty > 0
MarketCalls(t) ==
    IF RemainQty(t.quantity, Remaining(t.profit_level)) > 0
    THEN << Call("place_market", 0,
                 RemainQty(t.quantity, Remaining(t.profit_level)), "OK") >>
    ELSE << >>

SetTrade(t) == [trades EXCEPT ![idx] = t]

EnteredToggled(t) == [t EXCEPT !.entry = 1 - t.entry]

\* t.entry = 1
Entered(t) == [t EXCEPT !.entry = 1]

InLoop == pc = "enter" /\ idx <= Len(trades)

\* trades = db.fetch_trades()
PassBegin ==
    /\ pc = "idle"
    /\ passes < MaxPasses
    /\ trades' = FetchTrades(trades_db)
    /\ idx' = 1
    /\ pc' = "enter"
    /\ calls' = << >>
    /\ outcome' = "begin"
    /\ passes' = passes + 1
    /\ bar' = 0
    /\ UNCHANGED <<trades_db, orders>>

\* if t.entry == 1 and not sum(...): continue
SkipClosed ==
    /\ InLoop
    /\ IsClosed(trades[idx])
    /\ idx' = idx + 1
    /\ calls' = << >>
    /\ outcome' = "closed"
    /\ bar' = 0
    /\ UNCHANGED <<trades_db, trades, pc, orders, passes>>

\* query_order yields no result: order["OrderMatched"] raises
EntryQueryFails ==
    /\ InLoop
    /\ ~IsClosed(trades[idx])
    /\ calls' = << Call("query", trades[idx].order_id, 0, "NONE") >>
    /\ pc' = "aborted"
    /\ outcome' = "raised"
    /\ bar' = 0
    /\ UNCHANGED <<trades_db, trades, idx, orders, passes>>

\* if t.entry == 0 and order[...]["Status"] != "FILLED": continue
EntryNotFilled ==
    /\ InLoop
    /\ ~IsClosed(trades[idx])
    /\ trades[idx].entry = 0
    /\ StatusOf(trades[idx].order_id) # "FILLED"
    /\ calls' = << Call("query", trades[idx].order_id, 0, StatusOf(trades[idx].order_id)) >>
    /\ idx' = idx + 1
    /\ outcome' = "waiting"
    /\ bar' = 0
    /\ UNCHANGED <<trades_db, trades, pc, orders, passes>>

\* if t.entry == 0: the three LIMIT sells, break at the first rejected leg;
\* a leg without a result raises on placed["Success"]
PlaceTakeProfits ==
    /\ InLoop
    /\ ~IsClosed(trades[idx])
    /\ trades[idx].entry = 0
    /\ StatusOf(trades[idx].order_id) = "FILLED"
    /\ \E k \in 0..3, fail \in {"REJECT", "NONE"} :
         LET t == trades[idx]
             placed == [t EXCEPT !.tp_order_ids = t.tp_order_ids \o NewIds(k)]
         IN /\ k = 3 => fail = "REJECT"
            /\ orders' = orders \o LimitSells(t, k)
            /\ calls' = << Call("query", t.order_id, 0, "FILLED") >>
                            \o PlaceCalls(t, k, fail)
            /\ IF k < 3 /\ fail = "NONE"
               THEN /\ trades' = SetTrade(placed)
                    /\ pc' = "aborted"
                    /\ outcome' = "raised"
               ELSE /\ trades' = SetTrade(Entered(placed))
                    /\ pc' = "manage"
                    /\ outcome' = "placed"
    /\ bar' = 0
    /\ UNCHANGED <<trades_db, idx, passes>>

\* an entered trade: the entry query is answered, t.entry = 1 again
AlreadyEntered ==
    /\ InLoop
    /\ ~IsClosed(trades[idx])
    /\ trades[idx].entry = 1
    /\ calls' = << Call("query", trades[idx].order_id, 0, StatusOf(trades[idx].order_id)) >>
    /\ trades' = SetTrade(Entered(trades[idx]))
    /\ pc' = "manage"
    /\ outcome' = "entered"
    /\ bar' = 0
    /\ UNCHANGED <<trades_db, idx, orders, passes>>

\* if data is None or data.empty ...: continue
NoBarData ==
    /\ pc = "manage"
    /\ idx' = idx + 1
    /\ pc' = "enter"
    /\ outcome' = "nodata"
    /\ bar' = 0
    /\ UNCHANGED <<trades_db, trades, orders, calls, passes>>

\* a fill query of rung n yields no result: sell_order["OrderMatched"] raises
FillQueryFails ==
    /\ pc = "manage"
    /\ \E n \in 1..Len(trades[idx].tp_order_ids) :
         /\ trades' = SetTrade(AfterFills(trades[idx], n - 1))
         /\ calls' = calls \o FillCalls(trades[idx], n, n)
    /\ pc' = "aborted"
    /\ outcome' = "raised"
    /\ UNCHANGED <<trades_db, idx, orders, bar, passes>>

\* all rungs consumed: t.stop_loss[len(t.stop_loss) - 0] raises IndexError
StopIndexFails ==
    /\ pc = "manage"
    /\ LET t == AfterFills(trades[idx], Len(trades[idx].tp_order_ids))
       IN /\ Remaining(t.profit_level) = 0
          /\ trades' = SetTrade(t)
          /\ calls' = calls \o FillCalls(trades[idx], Len(t.tp_order_ids), 0)
    /\ pc' = "aborted"
    /\ outcome' = "raised"
    /\ UNCHANGED <<trades_db, idx, orders, bar, passes>>

\* the fill queries, the stop check with its cancels, and the MARKET sell
ManageLadder ==
    /\ pc = "manage"
    /\ \E low \in Lows :
         LET t == AfterFills(trades[idx], Len(trades[idx].tp_order_ids))
         IN /\ Remaining(t.profit_level) > 0
            /\ bar' = low
            /\ trades' = SetTrade(t)
            /\ orders' = IF StopHit(t, low) THEN Cancelled(t) ELSE orders
            /\ calls' = calls \o FillCalls(trades[idx], Len(t.tp_order_ids), 0)
                              \o (IF StopHit(t, low) THEN CancelCalls(t) ELSE << >>)
                              \o MarketCalls(t)
            /\ outcome' = IF StopHit(t, low) THEN "stopped" ELSE "managed"
    /\ idx' = idx + 1
    /\ pc' = "enter"
    /\ UNCHANGED <<trades_db, passes>>

\* db.insert_trades(trades)
PassEnd ==
    /\ pc = "enter"
    /\ idx > Len(trades)
    /\ trades_db' = InsertTrades(trades_db, trades)
    /\ trades' = << >>
    /\ pc' = "idle"
    /\ outcome' = "saved"
    /\ calls' = << >>
    /\ bar' = 0
    /\ UNCHANGED <<idx, orders, passes>>

\* main_loop: except Exception: logger.error(...); the pass's list is dropped
PassAborted ==
    /\ pc = "aborted"
    /\ trades' = << >>
    /\ pc' = "idle"
    /\ outcome' = "dropped"
    /\ calls' = << >>
    /\ bar' = 0
    /\ UNCHANGED <<trades_db, idx, orders, passes>>

\* the orders the stored trades refer to (entry and take-profit orders)
Tracked ==
    UNION { {trades_db[i].order_id}
            \cup {trades_db[i].tp_order_ids[j] : j \in DOMAIN trades_db[i].tp_order_ids}
          : i \in DOMAIN trades_db }

\* the venue fills a pending order; the fill of an order no stored trade
\* refers to is never read by the program and is left out
VenueFill ==
    /\ pc = "idle"
    /\ \E o \in Tracked :
         /\ orders[o].status = "PENDING"
         /\ orders' = [orders EXCEPT ![o].status = "FILLED"]
    /\ UNCHANGED <<trades_db, trades, pc, idx, calls, outcome, bar, passes>>

\* the entry order the venue holds for a Trade created by can_trade
EntryOrder(t) ==
    [side |-> "BUY", type |-> "LIMIT", qty |-> t.quantity, price |-> 0,
     status |-> "PENDING"]

----------------------------------------------------------------------------
(* Configuration, config.py                                                *)

TRADING_FREQUENCY_MS == 300000
PIVOT_POINT_COMPARE == 2
\* 0.005 and 0.002, in thousandths
MAXIMUM_PERCENTAGE_DIFFERENCE == 5
MINIMUM_BREAKTHROUGH_PERCENTAGE == 2
SUPPORT_LINE_TIMEFRAME == 72 * TRADING_FREQUENCY_MS
TIME_EXTEND_MS == 5 * TRADING_FREQUENCY_MS

\* the width of a kline of interval "15m"
KlineMs == 900000

----------------------------------------------------------------------------
(* The market and the cycle clock                                          *)

\* the asset's 15m klines: two equal lows and two equal highs (bars 3, 4),
\* a low 0.5% under them (bar 7) and a higher high (bar 10)
Market ==
    LET lows  == << 100200, 100200, 100000, 100000, 100200, 100200,
                    99500, 100200, 100200, 100300, 100200, 100200 >>
        highs == << 100900, 100900, 101000, 101000, 100800, 100700,
                    100600, 100500, 100400, 101500, 100400, 100400 >>
    IN [k \in 1..12 |-> [timestamp |-> k * KlineMs, low |-> lows[k], high |-> highs[k]]]

\* execute_ms of the first cycle is StartTime plus the first wait
StartTime == 26 * TRADING_FREQUENCY_MS

\* periods of TRADING_FREQUENCY_MS from one findSignal run of the asset to
\* the next (main_loop skips cycles while the market is volatile or closed)
Periods == {1, 9, 62}

\* datasource.get_historical_klines(start_time = execute_ms - 25 periods,
\* end_time = execute_ms, limit = 25)
GetHistoricalKlines(t) ==
    SelectSeq(Market, LAMBDA b : /\ b.timestamp >= t - 25 * TRADING_FREQUENCY_MS
                                 /\ b.timestamp <= t)

----------------------------------------------------------------------------
(* The store of pivots and opportunities, datastore.py                     *)

\* ORDER BY timestamp ASC over the primary key (timestamp, pivot_type)
PivotBefore(p, q) ==
    \/ p.timestamp < q.timestamp
    \/ p.timestamp = q.timestamp /\ p.type = "high" /\ q.type = "low"

RECURSIVE PivotRows(_)
PivotRows(S) ==
    IF S = {} THEN << >>
    ELSE LET m == CHOOSE p \in S : \A q \in S \ {p} : PivotBefore(p, q)
         IN << m >> \o PivotRows(S \ {m})

\* fetch_pivots(coin, since, until)
FetchPivots(db, since, until) ==
    PivotRows({p \in db : p.timestamp >= since /\ p.timestamp <= until})

\* a plain INSERT of the row, without the ON CONFLICT clause
InsertPivotRow(db, p) == db \cup {p}

\* one row of insert_pivots: ON CONFLICT(coin, timestamp, pivot_type) DO UPDATE
UpsertPivot(db, p) ==
    {q \in db : ~(q.timestamp = p.timestamp /\ q.type = p.type)} \cup {p}

RECURSIVE InsertPivots(_, _)
InsertPivots(db, ps) ==
    IF ps = << >> THEN db
    ELSE InsertPivots(UpsertPivot(db, Head(ps)), Tail(ps))

\* ORDER BY start_time ASC over the primary key (start_time, support_line)
OppBefore(a, b) ==
    \/ a.start < b.start
    \/ a.start = b.start /\ a.support_line < b.support_line

RECURSIVE OppRows(_)
OppRows(S) ==
    IF S = {} THEN << >>
    ELSE LET m == CHOOSE a \in S : \A b \in S \ {a} : OppBefore(a, b)
         IN << m >> \o OppRows(S \ {m})

\* fetch_opportunities(coin, since, until):
\* start_time >= since AND end_time <= until
FetchOpportunities(db, since, until) ==
    OppRows({o \in db : o.start >= since /\ o.end <= until})

\* one row of insert_opportunities: ON CONFLICT(coin, start_time, support_line)
UpsertOpportunity(db, o) ==
    {q \in db : ~(q.start = o.start /\ q.support_line = o.support_line)} \cup {o}

RECURSIVE InsertOpportunities(_, _)
InsertOpportunities(db, os) ==
    IF os = << >> THEN db
    ELSE InsertOpportunities(UpsertOpportunity(db, Head(os)), Tail(os))

----------------------------------------------------------------------------
(* Pivot detection, utils.update_pivots                                    *)

Pivot(ts, price, type) ==
    [timestamp |-> ts, price |-> price, type |-> type, is_supported |-> FALSE]

\* the list is not searched for the (timestamp, type) of a candidate
NoPivotKnown(P, ts, type) == FALSE

HasPivot(P, ts, type) ==
    \E i \in DOMAIN P : P[i].timestamp = ts /\ P[i].type = type

SetMin(S) == CHOOSE x \in S : \A y \in S : x <= y
SetMax(S) == CHOOSE x \in S : \A y \in S : x >= y

\* the candidate must be strictly below, or above, each of its neighbours
RECURSIVE DetectPivotsStrict(_, _, _, _)
DetectPivotsStrict(data, P, c, end) ==
    IF c > end THEN P
    ELSE LET near == ((c - PIVOT_POINT_COMPARE)..(c + PIVOT_POINT_COMPARE)) \ {c}
             pivot_low  == \A n \in near : data[c].low < data[n].low
             pivot_high == \A n \in near : data[c].high > data[n].high
             ts == data[c].timestamp
             P1 == IF pivot_low /\ ~HasPivot(P, ts, "low")
                   THEN Append(P, Pivot(ts, data[c].low, "low")) ELSE P
             P2 == IF pivot_high /\ ~HasPivot(P1, ts, "high")
                   THEN Append(P1, Pivot(ts, data[c].high, "high")) ELSE P1
         IN IF ts <= 0 THEN DetectPivotsStrict(data, P, c + 1, end)
            ELSE DetectPivotsStrict(data, P2, c + 1, end)

\* for candidate in range(start, end + 1): compare with the bars within
\* PIVOT_POINT_COMPARE on both sides, append the low and then the high pivot
\* unless a pivot of that timestamp and type is in the list
RECURSIVE DetectPivots(_, _, _, _)
DetectPivots(data, P, c, end) ==
    IF c > end THEN P
    ELSE LET near == (c - PIVOT_POINT_COMPARE)..(c + PIVOT_POINT_COMPARE)
             pivot_low  == \A n \in near : ~(data[c].low > data[n].low)
             pivot_high == \A n \in near : ~(data[c].high < data[n].high)
             ts == data[c].timestamp
             P1 == IF pivot_low /\ ~HasPivot(P, ts, "low")
                   THEN Append(P, Pivot(ts, data[c].low, "low")) ELSE P
             P2 == IF pivot_high /\ ~HasPivot(P1, ts, "high")
                   THEN Append(P1, Pivot(ts, data[c].high, "high")) ELSE P1
         IN IF ts <= 0 THEN DetectPivots(data, P, c + 1, end)
            ELSE DetectPivots(data, P2, c + 1, end)

\* the list is rebuilt from the window alone
UpdatePivotsFresh(data, P) ==
    IF Len(data) < 2 * PIVOT_POINT_COMPARE + 1 THEN << >>
    ELSE DetectPivots(data, << >>, PIVOT_POINT_COMPARE + 1,
                      Len(data) - PIVOT_POINT_COMPARE)

\* {"high", "low"}.issubset(df.columns)
HasColumns(data) ==
    \A i \in DOMAIN data : {"high", "low"} \subseteq DOMAIN data[i]

\* update_pivots(data, pivots): the candidates start at the first bar not
\* older than two klines before the latest stored pivot
UpdatePivots(data, P) ==
    IF Len(data) < 2 * PIVOT_POINT_COMPARE + 1 THEN P
    ELSE IF ~HasColumns(data) THEN P
    ELSE LET bounded == P # << >> /\ P[Len(P)].timestamp > 0
             filtered == {i \in DOMAIN data :
                            bounded => data[i].timestamp
                                         >= P[Len(P)].timestamp - 2 * KlineMs}
         IN IF filtered = {} THEN P
            ELSE LET start == SetMax({SetMin(filtered), PIVOT_POINT_COMPARE + 1})
                     end   == Len(data) - PIVOT_POINT_COMPARE
                 IN DetectPivots(data, P, start, end)

\* the value update_pivots returns: "none" at its early returns, and no
\* value ("None") when the function body ends after the candidate loop
UpdatePivotsReturn(data, P) ==
    IF Len(data) < 2 * PIVOT_POINT_COMPARE + 1 THEN "none"
    ELSE IF ~HasColumns(data) THEN "none"
    ELSE LET bounded == P # << >> /\ P[Len(P)].timestamp > 0
             filtered == {i \in DOMAIN data :
                            bounded => data[i].timestamp
                                         >= P[Len(P)].timestamp - 2 * KlineMs}
         IN IF filtered = {} THEN "none"
            ELSE IF SetMax({SetMin(filtered), PIVOT_POINT_COMPARE + 1})
                      > Len(data) - PIVOT_POINT_COMPARE
                 THEN "none"
            ELSE "None"

----------------------------------------------------------------------------
(* Support and resistance lines, utils.update_support_resistance           *)

\* the used flag of a pivot is not read
UsableAnyStatus(p, type) == p.type = type

\* not (p.type != target_type or p.price is None or p.is_supported)
Usable(p, type) == p.type = type /\ ~p.is_supported

Abs(x) == IF x < 0 THEN -x ELSE x

PivotKey(p) == << p.timestamp, p.type >>

\* the opportunity priced and started at its first pivot
NewOpportunityAtFirst(pi, pj) ==
    [ support_line      |-> pi.price,
      minimum           |-> 0,
      maximum           |-> 0,
      relative_pivot    |-> 0,
      action            |-> "N/A",
      start             |-> pi.timestamp,
      end               |-> pi.timestamp + SUPPORT_LINE_TIMEFRAME,
      extrema_timestamp |-> 0 ]

\* Opportunity(support_line = (p_i + p_j) / 2, ..., start = p_j.timestamp)
NewOpportunity(pi, pj) ==
    [ support_line      |-> (pi.price + pj.price) \div 2,
      minimum           |-> 0,
      maximum           |-> 0,
      relative_pivot    |-> 0,
      action            |-> "N/A",
      start             |-> pj.timestamp,
      end               |-> pj.timestamp + SUPPORT_LINE_TIMEFRAME,
      extrema_timestamp |-> 0 ]

\* the opportunity is appended and the pivots are not flagged
PairPivotsUnflagged(st, i, j) ==
    [ pivots        |-> st.pivots,
      opportunities |-> Append(st.opportunities,
                               NewOpportunity(st.pivots[i], st.pivots[j])),
      matched       |-> Append(st.matched,
                               << PivotKey(st.pivots[i]), PivotKey(st.pivots[j]) >>) ]

\* a valid line is found: both pivots are flagged, the opportunity appended
PairPivots(st, i, j) ==
    [ pivots        |-> [k \in DOMAIN st.pivots |->
                            IF k \in {i, j}
                            THEN [st.pivots[k] EXCEPT !.is_supported = TRUE]
                            ELSE st.pivots[k]],
      opportunities |-> Append(st.opportunities,
                               NewOpportunity(st.pivots[i], st.pivots[j])),
      matched       |-> Append(st.matched,
                               << PivotKey(st.pivots[i]), PivotKey(st.pivots[j]) >>) ]

\* the inner loop without the price tolerance test
RECURSIVE MatchFromAnyPrice(_, _, _, _)
MatchFromAnyPrice(st, type, i, j) ==
    LET P == st.pivots
    IN IF j > Len(P) THEN st
       ELSE IF ~Usable(P[j], type) THEN MatchFromAnyPrice(st, type, i, j + 1)
       ELSE IF \E k \in (i + 1)..(j - 1) : P[k].type = type
            THEN MatchFromAnyPrice(st, type, i, j + 1)
       ELSE IF Abs(P[j].timestamp - P[i].timestamp) > SUPPORT_LINE_TIMEFRAME
            THEN st
       ELSE IF P[i].price = 0 THEN MatchFromAnyPrice(st, type, i, j + 1)
       ELSE MatchFromAnyPrice(PairPivots(st, i, j), type, i, j + 1)

\* for j in range(i + 1, len(pivots))
RECURSIVE MatchFrom(_, _, _, _)
MatchFrom(st, type, i, j) ==
    LET P == st.pivots
    IN IF j > Len(P) THEN st
       ELSE IF ~Usable(P[j], type) THEN MatchFrom(st, type, i, j + 1)
       ELSE IF \E k \in (i + 1)..(j - 1) : P[k].type = type
            THEN MatchFrom(st, type, i, j + 1)
       ELSE IF Abs(P[j].timestamp - P[i].timestamp) > SUPPORT_LINE_TIMEFRAME
            THEN st
       ELSE IF P[i].price = 0 THEN MatchFrom(st, type, i, j + 1)
       ELSE IF Abs(P[j].price - P[i].price) * 1000
                 > MAXIMUM_PERCENTAGE_DIFFERENCE * P[i].price
            THEN MatchFrom(st, type, i, j + 1)
       ELSE MatchFrom(PairPivots(st, i, j), type, i, j + 1)

\* for i in range(len(pivots) - 1)
RECURSIVE MatchType(_, _, _)
MatchType(st, type, i) ==
    IF i > Len(st.pivots) - 1 THEN st
    ELSE IF ~Usable(st.pivots[i], type) THEN MatchType(st, type, i + 1)
    ELSE MatchType(MatchFrom(st, type, i, i + 1), type, i + 1)

\* update_support_resistance(pivots, opportunities): "low", then "high"
UpdateSupportResistance(st) ==
    IF Len(st.pivots) < 2 THEN st
    ELSE MatchType(MatchType(st, "low", 1), "high", 1)

----------------------------------------------------------------------------
(* Extrema and sizing, utils.can_trade                                     *)

\* the bullish scan of one opportunity over the pivot list, from index i
RECURSIVE Extrema(_, _, _)
Extrema(o, P, i) ==
    IF i > Len(P) THEN o
    ELSE IF P[i].timestamp < o.start \/ P[i].timestamp < o.extrema_timestamp
         THEN Extrema(o, P, i + 1)
    ELSE LET o1 == IF /\ P[i].type = "low"
                      /\ P[i].price * 1000
                           < o.support_line * (1000 - MINIMUM_BREAKTHROUGH_PERCENTAGE)
                   THEN [o EXCEPT !.minimum = P[i].price,
                                  !.end = @ + TIME_EXTEND_MS,
                                  !.extrema_timestamp = P[i].timestamp]
                   ELSE o
             highs == {j \in 1..(i - 1) : P[j].type = "high"}
             o2 == IF highs = {} THEN o1
                   ELSE [o1 EXCEPT !.relative_pivot = P[SetMax(highs)].price]
         IN IF o2.minimum > 0 /\ P[i].price > o2.relative_pivot
            THEN [o2 EXCEPT !.maximum = P[i].price]
            ELSE Extrema(o2, P, i + 1)

\* the entry at the middle of the range
OrderPriceMid(o) == o.minimum + FibRange(o) \div 2

\* opportunity.minimum + 0.618 * (opportunity.maximum - opportunity.minimum)
OrderPrice(o) == o.minimum + (618 * FibRange(o)) \div 1000

\* SET_TRADE_QUANTITY = 0.01, in percent
SET_TRADE_QUANTITY == 1

\* balance["SpotWallet"]["USD"]["Free"], in thousandths of a dollar
Balances == {50000000, 80000000}

\* round(n / d) of Python 3 for d > 0 and n >= 0: ties go to the even integer
Round(n, d) ==
    LET q == n \div d
        r == n % d
    IN IF 2 * r < d THEN q
       ELSE IF 2 * r > d THEN q + 1
       ELSE IF q % 2 = 0 THEN q ELSE q + 1

\* round((usd_balance * SET_TRADE_QUANTITY) / order_price, amount_precision),
\* amount_precision = 0
OrderQuantity(usd, price) == Round(usd * SET_TRADE_QUANTITY, 100 * price)

----------------------------------------------------------------------------
(* One findSignal run of the asset, find_signal.findSignal                 *)

handler == <<trades, pc, idx, calls, outcome, bar, passes, sold, loopvars, req>>

\* the opportunity can_trade's loop is at, and the same after the scan
Current == opportunities[oidx]
Scanned == IF trend = "bullish" THEN Extrema(Current, pivots, 1) ELSE Current

InCanTrade == spc = "loop" /\ oidx <= Len(opportunities)
\* the loop without `if opportunity.action != "N/A": continue`
SizableAny == InCanTrade
Sizable == InCanTrade /\ Current.action = "N/A"

\* check_trend_conditions(btc_data) is "volatile": return
SigVolatile ==
    /\ spc = "idle"
    /\ cycles < MaxCycles
    /\ \E d \in Periods : now' = now + d * TRADING_FREQUENCY_MS
    /\ cycles' = cycles + 1
    /\ trend' = "volatile"
    /\ UNCHANGED <<pivots_db, opps_db, pivots, opportunities, new_trades, spc,
                   oidx, entries, matched, trades_db, orders, handler>>

\* fetch_pivots, fetch_opportunities, update_pivots,
\* update_support_resistance, and can_trade's first test
SigBegin ==
    /\ spc = "idle"
    /\ cycles < MaxCycles
    /\ \E d \in Periods, tr \in {"bullish", "bearish"} :
         LET t  == now + d * TRADING_FREQUENCY_MS
             P0 == FetchPivots(pivots_db, t - 7 * SUPPORT_LINE_TIMEFRAME, t)
             O0 == FetchOpportunities(opps_db, t - 7 * SUPPORT_LINE_TIMEFRAME, t)
             P1 == UpdatePivots(GetHistoricalKlines(t), P0)
             st == UpdateSupportResistance(
                       [pivots |-> P1, opportunities |-> O0, matched |-> matched])
         IN /\ now' = t
            /\ trend' = tr
            /\ pivots' = st.pivots
            /\ opportunities' = st.opportunities
            /\ matched' = st.matched
            /\ spc' = IF st.pivots = << >> \/ st.opportunities = << >>
                      THEN "save" ELSE "loop"
    /\ cycles' = cycles + 1
    /\ new_trades' = << >>
    /\ oidx' = 1
    /\ UNCHANGED <<pivots_db, opps_db, entries, trades_db, orders, handler>>

\* if opportunity.action != "N/A": continue
OppSkip ==
    /\ InCanTrade
    /\ Current.action # "N/A"
    /\ oidx' = oidx + 1
    /\ UNCHANGED <<now, cycles, pivots_db, opps_db, pivots, opportunities,
                   new_trades, trend, spc, entries, matched, trades_db, orders,
                   handler>>

\* get_balance() yields no result: balance["Success"] raises
OppBalanceNone ==
    /\ Sizable
    /\ opportunities' = [opportunities EXCEPT ![oidx] = Scanned]
    /\ spc' = "aborted"
    /\ UNCHANGED <<now, cycles, pivots_db, opps_db, pivots, new_trades, trend,
                   oidx, entries, matched, trades_db, orders, handler>>

\* if not balance["Success"]: continue
OppBalanceRefused ==
    /\ Sizable
    /\ opportunities' = [opportunities EXCEPT ![oidx] = Scanned]
    /\ oidx' = oidx + 1
    /\ UNCHANGED <<now, cycles, pivots_db, opps_db, pivots, new_trades, trend,
                   spc, entries, matched, trades_db, orders, handler>>

\* order_price is 0: (usd_balance * SET_TRADE_QUANTITY) / order_price raises
OppZeroPrice ==
    /\ Sizable
    /\ OrderPrice(Scanned) = 0
    /\ opportunities' = [opportunities EXCEPT ![oidx] = Scanned]
    /\ spc' = "aborted"
    /\ UNCHANGED <<now, cycles, pivots_db, opps_db, pivots, new_trades, trend,
                   oidx, entries, matched, trades_db, orders, handler>>

\* place_order() yields no result: placed_order["Success"] raises
OppPlaceNone ==
    /\ Sizable
    /\ OrderPrice(Scanned) # 0
    /\ opportunities' = [opportunities EXCEPT ![oidx] = Scanned]
    /\ spc' = "aborted"
    /\ UNCHANGED <<now, cycles, pivots_db, opps_db, pivots, new_trades, trend,
                   oidx, entries, matched, trades_db, orders, handler>>

\* the venue refuses the order: opportunity.action = "N/A"
OppRejected ==
    /\ Sizable
    /\ OrderPrice(Scanned) # 0
    /\ opportunities' = [opportunities EXCEPT ![oidx] = Scanned]
    /\ oidx' = oidx + 1
    /\ UNCHANGED <<now, cycles, pivots_db, opps_db, pivots, new_trades, trend,
                   spc, entries, matched, trades_db, orders, handler>>

\* the venue accepts the order: action = "BUY" and a Trade is appended
OppOrdered ==
    /\ Sizable
    /\ OrderPrice(Scanned) # 0
    /\ \E usd \in Balances :
         LET t == NewTrade(Scanned, Len(orders) + 1,
                           OrderQuantity(usd, OrderPrice(Scanned)))
         IN /\ new_trades' = Append(new_trades, t)
            /\ orders' = Append(orders, [EntryOrder(t) EXCEPT
                                            !.price = OrderPrice(Scanned)])
            /\ entries' = Append(entries, [start        |-> Scanned.start,
                                           support_line |-> Scanned.support_line,
                                           minimum      |-> Scanned.minimum,
                                           maximum      |-> Scanned.maximum,
                                           usd          |-> usd,
                                           cycle        |-> cycles])
    /\ opportunities' = [opportunities EXCEPT ![oidx] =
                            [Scanned EXCEPT !.action = "BUY"]]
    /\ oidx' = oidx + 1
    /\ UNCHANGED <<now, cycles, pivots_db, opps_db, pivots, trend, spc, matched,
                   trades_db, handler>>

\* db.insert_pivots, db.insert_opportunities, db.insert_trades
SigEnd ==
    /\ \/ spc = "loop" /\ oidx > Len(opportunities)
       \/ spc = "save"
    /\ pivots_db' = InsertPivots(pivots_db, pivots)
    /\ opps_db' = InsertOpportunities(opps_db, opportunities)
    /\ trades_db' = InsertTrades(trades_db, new_trades)
    /\ pivots' = << >>
    /\ opportunities' = << >>
    /\ new_trades' = << >>
    /\ spc' = "idle"
    /\ oidx' = 1
    /\ UNCHANGED <<now, cycles, trend, entries, matched, orders, handler>>

\* run_find_signal: except Exception: logger.error(...); the run's lists
\* are dropped
SigAborted ==
    /\ spc = "aborted"
    /\ pivots' = << >>
    /\ opportunities' = << >>
    /\ new_trades' = << >>
    /\ spc' = "idle"
    /\ oidx' = 1
    /\ UNCHANGED <<now, cycles, pivots_db, opps_db, trend, entries, matched,
                   trades_db, orders, handler>>

\* the store holds two trades created by can_trade, their entry orders
\* resting at the venue
PMInit ==
    /\ \E r \in Ranges, q \in Quantities :
         /\ trades_db = << NewTrade(r, 1, q), NewTrade(ScenarioD, 2, q) >>
         /\ orders = << EntryOrder(NewTrade(r, 1, q)),
                        EntryOrder(NewTrade(ScenarioD, 2, q)) >>
    /\ trades = << >>
    /\ pc = "idle"
    /\ idx = 1
    /\ calls = << >>
    /\ outcome = "init"
    /\ bar = 0
    /\ passes = 0
    /\ sold = [id \in 1..2 |-> 0]
    /\ req = NoRequest

\* no findSignal run is in progress and its store is empty
SigIdle ==
    /\ now = 0
    /\ cycles = 0
    /\ pivots_db = {}
    /\ opps_db = {}
    /\ pivots = << >>
    /\ opportunities = << >>
    /\ new_trades = << >>
    /\ trend = "volatile"
    /\ spc = "idle"
    /\ oidx = 1
    /\ entries = << >>
    /\ matched = << >>
    /\ LoopIdle

Init == PMInit /\ SigIdle

Next ==
    \/ PassBegin /\ UNCHANGED <<sigvars, loopvars, sold, req>>
    \/ SkipClosed /\ UNCHANGED <<sigvars, loopvars, sold, req>>
    \/ EntryQueryFails /\ UNCHANGED <<sigvars, loopvars, sold, req>>
    \/ EntryNotFilled /\ UNCHANGED <<sigvars, loopvars, sold, req>>
    \/ PlaceTakeProfits /\ UNCHANGED <<sigvars, loopvars, sold, req>>
    \/ AlreadyEntered /\ UNCHANGED <<sigvars, loopvars, sold, req>>
    \/ NoBarData /\ UNCHANGED <<sigvars, loopvars, sold, req>>
    \/ FillQueryFails /\ UNCHANGED <<sigvars, loopvars, sold, req>>
    \/ StopIndexFails /\ UNCHANGED <<sigvars, loopvars, sold, req>>
    \/ ManageLadder /\ UNCHANGED <<sigvars, loopvars, sold, req>>
    \/ PassEnd /\ UNCHANGED <<sigvars, loopvars, sold, req>>
    \/ PassAborted /\ UNCHANGED <<sigvars, loopvars, sold, req>>
    \/ VenueFill /\ UNCHANGED <<sigvars, loopvars, sold, req>>

Spec == Init /\ [][Next]_vars

\* the asset's signal pipeline alone: an empty store, no trade to manage
SignalInit ==
    /\ LoopIdle
    /\ trades_db = << >>
    /\ orders = << >>
    /\ trades = << >>
    /\ pc = "idle"
    /\ idx = 1
    /\ calls = << >>
    /\ outcome = "init"
    /\ bar = 0
    /\ passes = 0
    /\ sold = [id \in 1..2 |-> 0]
    /\ req = NoRequest
    /\ now = StartTime
    /\ cycles = 0
    /\ pivots_db = {}
    /\ opps_db = {}
    /\ pivots = << >>
    /\ opportunities = << >>
    /\ new_trades = << >>
    /\ trend = "volatile"
    /\ spc = "idle"
    /\ oidx = 1
    /\ entries = << >>
    /\ matched = << >>

SignalNext ==
    \/ SigVolatile
    \/ SigBegin
    \/ OppSkip
    \/ OppBalanceNone
    \/ OppBalanceRefused
    \/ OppZeroPrice
    \/ OppPlaceNone
    \/ OppRejected
    \/ OppOrdered
    \/ SigEnd
    \/ SigAborted

SpecSignal == SignalInit /\ [][SignalNext]_vars

----------------------------------------------------------------------------
(* Properties of the Position Manager                                      *)

AllZero(level) == \A i \in DOMAIN level : level[i] = 0
NonZero(level) == Cardinality({i \in DOMAIN level : level[i] # 0})

\* PENDING_TP_PLACEMENT = 0, ACTIVE = 1, CLOSED = 2
Stage(t) == IF t.entry = 0 THEN 0 ELSE IF AllZero(t.profit_level) THEN 2 ELSE 1

Forward(old, new) ==
    /\ old.entry = 1 => new.entry = 1
    /\ Stage(old) <= Stage(new)
    /\ \A i \in DOMAIN old.profit_level \cap DOMAIN new.profit_level :
         old.profit_level[i] = 0 => new.profit_level[i] = 0
    /\ \A i \in DOMAIN old.stop_loss \cap DOMAIN new.stop_loss :
         old.stop_loss[i] = 0 => new.stop_loss[i] = 0

\* the trade the last completed loop iteration handled
Handled == trades[idx - 1]
IterationDone == pc = "enter" /\ idx > 1
HasCall(op) == \E c \in DOMAIN calls : calls[c].op = op
CallsOf(op) == {c \in DOMAIN calls : calls[c].op = op}

\* C1: over any sequence of coins_handler passes a Trade only moves forward
\* PENDING_TP_PLACEMENT -> ACTIVE -> CLOSED: in the store and in the pass's
\* list, entry never returns from 1 to 0 and a zeroed profit_level or
\* stop_loss entry never becomes nonzero again.
C1_LifecycleForward ==
    [][ /\ \A i \in DOMAIN trades_db, j \in DOMAIN trades_db' :
             trades_db[i].order_id = trades_db'[j].order_id
                => Forward(trades_db[i], trades_db'[j])
        /\ \A i \in DOMAIN trades \cap DOMAIN trades' :
             Forward(trades[i], trades'[i])
        /\ \A i \in DOMAIN trades_db, j \in DOMAIN trades' :
             (trades = << >> /\ trades_db[i].order_id = trades'[j].order_id)
                => Forward(trades_db[i], trades'[j]) ]_vars

\* a stored Trade that is ACTIVE with one rung consumed, after two passes
C1_Witness ==
    \E i \in DOMAIN trades_db :
        /\ trades_db[i].entry = 1
        /\ NonZero(trades_db[i].profit_level) = 2
        /\ passes = 2

\* C2: a MARKET sell is issued for an ACTIVE Trade only in an iteration
\* whose bar low is at or below the active stop stop_loss[3 - remaining],
\* after a cancel of each of its take-profit orders and for the quantity
\* quantity * remain_frac; with the low above the stop there is no sell.
C2_MarketSellOnlyOnStop ==
    (IterationDone /\ outcome \in {"managed", "stopped"}
       /\ Len(Handled.tp_order_ids) = 3 /\ HasCall("place_market"))
        => /\ bar <= Handled.stop_loss[3 - NonZero(Handled.profit_level) + 1]
           /\ \A i \in DOMAIN Handled.tp_order_ids :
                \E c \in CallsOf("cancel") :
                    /\ calls[c].id = Handled.tp_order_ids[i]
                    /\ \A m \in CallsOf("place_market") : c < m
           /\ \A m \in CallsOf("place_market") :
                calls[m].qty = RemainQty(Handled.quantity, NonZero(Handled.profit_level))

\* C3: when the stop of an ACTIVE Trade is hit, the iteration cancels every
\* take-profit order, issues one MARKET sell for the remaining fraction and
\* leaves all rungs zero, so that the Trade is CLOSED.
C3_StopHitCloses ==
    (IterationDone /\ outcome = "stopped" /\ Len(Handled.tp_order_ids) = 3)
        => /\ \A i \in DOMAIN Handled.tp_order_ids :
                \E c \in CallsOf("cancel") : calls[c].id = Handled.tp_order_ids[i]
           /\ Cardinality(CallsOf("place_market")) = 1
           /\ AllZero(Handled.profit_level)
           /\ AllZero(Handled.stop_loss)

C7_ThreeLegsAttempted ==
    (pc = "manage" /\ outcome = "placed")
        => /\ Cardinality(CallsOf("place_limit")) = 3
           /\ Len(trades[idx].tp_order_ids) = 3
           /\ trades[idx].entry = 1

\* the fill queries of the step just taken that reported FILLED, by rung
ReportedFilled(old) ==
    {i \in DOMAIN old.tp_order_ids :
        \E c \in DOMAIN calls' :
            /\ c > Len(calls)
            /\ calls'[c].op = "query"
            /\ calls'[c].id = old.tp_order_ids[i]
            /\ calls'[c].res = "FILLED"}

\* C8: in the manage step of a pass, each rung whose take-profit order is
\* reported FILLED gets profit_level and stop_loss zero, every other rung
\* keeps both values, the ladder lengths stay, and remaining drops by the
\* number of newly filled rungs.
C8_FilledRungsZeroed ==
    [][ pc = "manage" =>
          LET old == trades[idx]
              new == trades'[idx]
          IN /\ Len(new.profit_level) = Len(old.profit_level)
             /\ Len(new.stop_loss) = Len(old.stop_loss)
             /\ \A i \in DOMAIN old.profit_level :
                  IF i \in ReportedFilled(old)
                  THEN new.profit_level[i] = 0 /\ new.stop_loss[i] = 0
                  ELSE /\ new.profit_level[i] = old.profit_level[i]
                       /\ new.stop_loss[i] = old.stop_loss[i]
             /\ NonZero(new.profit_level) =
                  NonZero(old.profit_level)
                    - Cardinality({i \in ReportedFilled(old) : old.profit_level[i] # 0})
      ]_vars

\* one filled rung of a full ladder: remaining = 2 after the fill queries
C8_Witness ==
    /\ IterationDone
    /\ outcome = "managed"
    /\ \E c \in CallsOf("query") : c > 1 /\ calls[c].res = "FILLED"
    /\ NonZero(Handled.profit_level) = 2
    /\ Handled.stop_loss[1] = 0

\* C9: CLOSED is absorbing: the iteration of a Trade with entry = 1 and all
\* profit levels zero issues no broker call and changes nothing, and a
\* CLOSED row of the store is never changed by a later step.
C9_ClosedAbsorbing ==
    [][ /\ (pc = "enter" /\ idx <= Len(trades)
              /\ trades[idx].entry = 1 /\ AllZero(trades[idx].profit_level))
           => /\ calls' = << >>
              /\ trades' = trades
              /\ orders' = orders
              /\ pc' = "enter" /\ idx' = idx + 1
        /\ \A i \in DOMAIN trades_db :
             (trades_db[i].entry = 1 /\ AllZero(trades_db[i].profit_level))
                => /\ i \in DOMAIN trades_db'
                   /\ trades_db'[i] = trades_db[i] ]_vars

\* a pass has skipped a CLOSED Trade loaded from the store
C9_Witness ==
    /\ IterationDone
    /\ outcome = "closed"
    /\ Handled.entry = 1
    /\ AllZero(Handled.profit_level)

----------------------------------------------------------------------------
(* Properties of the signal pipeline                                       *)

\* C4: every Trade can_trade creates is sized from an opportunity whose
\* range is valid: at each accepted entry order the source opportunity has
\* maximum > minimum > 0, whatever extrema were recorded for it.
C4_RangeValidAtSizing ==
    \A e \in DOMAIN entries :
        /\ entries[e].minimum > 0
        /\ entries[e].maximum > entries[e].minimum

\* C5: across the cycles of an asset each opportunity, keyed by start and
\* support_line, produces at most one Trade: no two accepted entry orders
\* are sized from the same opportunity.
C5_OneTradePerOpportunity ==
    \A a \in DOMAIN entries, b \in DOMAIN entries :
        (/\ entries[a].start = entries[b].start
         /\ entries[a].support_line = entries[b].support_line) => a = b

----------------------------------------------------------------------------
(* update_support_resistance over the pivot lists of successive cycles     *)

\* timestamps of detected pivots: neighbouring klines, one that is exactly
\* SUPPORT_LINE_TIMEFRAME after the first and one that is further
PivotTimes == {KlineMs, 2 * KlineMs, 3 * KlineMs, 25 * KlineMs, 26 * KlineMs}

\* pivot prices: 0.3% apart (within the tolerance) and 1% apart (outside)
PivotPrices == {100000, 100300, 101000}

\* the pivots update_pivots may detect: lows at every time, 1% apart or
\* equal; a low 0.3% above at the second kline; equal highs at the first
\* two klines
Detectable ==
    {Pivot(ts, price, "low") : ts \in PivotTimes, price \in PivotPrices \ {100300}}
      \cup {Pivot(2 * KlineMs, 100300, "low")}
      \cup {Pivot(ts, 100000, "high") : ts \in {KlineMs, 2 * KlineMs}}

\* update_pivots appends a detected pivot whose (timestamp, type) is new,
\* not older than two klines before the last pivot of the list
AddPivot ==
    /\ Len(pivots) < MaxPivots
    /\ \E p \in Detectable :
         /\ ~HasPivot(pivots, p.timestamp, p.type)
         /\ pivots # << >> =>
              p.timestamp >= pivots[Len(pivots)].timestamp - 2 * KlineMs
         /\ pivots' = Append(pivots, p)
    /\ UNCHANGED <<now, cycles, pivots_db, opps_db, opportunities, new_trades,
                   trend, spc, oidx, entries, matched, trades_db, orders, handler>>

\* update_support_resistance(pivots, opportunities)
MatchCall ==
    /\ cycles < MaxCycles
    /\ LET st == UpdateSupportResistance(
                     [pivots |-> pivots, opportunities |-> opportunities,
                      matched |-> matched])
       IN /\ pivots' = st.pivots
          /\ opportunities' = st.opportunities
          /\ matched' = st.matched
    /\ cycles' = cycles + 1
    /\ UNCHANGED <<now, pivots_db, opps_db, new_trades, trend, spc, oidx,
                   entries, trades_db, orders, handler>>

\* db.insert_pivots(coin, pivots) and the next cycle's db.fetch_pivots
StoreAndFetch ==
    /\ pivots_db' = InsertPivots(pivots_db, pivots)
    /\ pivots' = FetchPivots(pivots_db', now - 7 * SUPPORT_LINE_TIMEFRAME, now)
    /\ UNCHANGED <<now, cycles, opps_db, opportunities, new_trades, trend, spc,
                   oidx, entries, matched, trades_db, orders, handler>>

MatcherInit ==
    /\ LoopIdle
    /\ trades_db = << >>
    /\ orders = << >>
    /\ trades = << >>
    /\ pc = "idle"
    /\ idx = 1
    /\ calls = << >>
    /\ outcome = "init"
    /\ bar = 0
    /\ passes = 0
    /\ sold = [id \in 1..2 |-> 0]
    /\ req = NoRequest
    /\ now = SetMax(PivotTimes)
    /\ cycles = 0
    /\ pivots_db = {}
    /\ opps_db = {}
    /\ pivots = << >>
    /\ opportunities = << >>
    /\ new_trades = << >>
    /\ trend = "bullish"
    /\ spc = "idle"
    /\ oidx = 1
    /\ entries = << >>
    /\ matched = << >>

MatcherNext ==
    \/ AddPivot
    \/ MatchCall
    \/ StoreAndFetch

SpecMatcher == MatcherInit /\ [][MatcherNext]_vars

\* the pairs of the log a pivot key occurs in
PairsOf(key) == {m \in DOMAIN matched : matched[m][1] = key \/ matched[m][2] = key}

\* C10: over any sequence of update_support_resistance calls on the asset's
\* pivot list every pivot is paired into at most one opportunity, every
\* emitted opportunity has two distinct pivots, and both are in the list
\* with is_supported = true.
C10_PivotPairedOnce ==
    /\ \A i \in DOMAIN pivots : Cardinality(PairsOf(PivotKey(pivots[i]))) <= 1
    /\ \A m \in DOMAIN matched :
         /\ matched[m][1] # matched[m][2]
         /\ \A s \in 1..2 :
              \E i \in DOMAIN pivots :
                  PivotKey(pivots[i]) = matched[m][s] /\ pivots[i].is_supported
    /\ Len(opportunities) = Len(matched)

\* two opportunities emitted by different calls, a stored and fetched list
C10_Witness ==
    /\ Len(matched) = 2
    /\ cycles >= 2
    /\ Len(pivots) = 4
    /\ \A i \in DOMAIN pivots : pivots[i].is_supported
    /\ pivots_db # {}

\* a pair the matcher should consume: same type, both unsupported, no
\* unsupported pivot of that type strictly between, within the timeframe
\* and the price tolerance
EligiblePair(P, i, j) ==
    /\ i < j
    /\ P[i].type = P[j].type
    /\ ~P[i].is_supported
    /\ ~P[j].is_supported
    /\ \A k \in (i + 1)..(j - 1) : P[k].type = P[i].type => P[k].is_supported
    /\ Abs(P[j].timestamp - P[i].timestamp) <= SUPPORT_LINE_TIMEFRAME
    /\ Abs(P[j].price - P[i].price) * 1000
         <= MAXIMUM_PERCENTAGE_DIFFERENCE * P[i].price

\* C11: when update_support_resistance returns, no eligible pair is left
\* unmatched in the pivot list; a supported pivot of the same type between
\* two unsupported ones does not keep them from being paired.
C11_NoEligiblePairLeft ==
    [][ cycles' = cycles + 1 =>
          \A i \in DOMAIN pivots', j \in DOMAIN pivots' :
              ~EligiblePair(pivots', i, j) ]_vars

----------------------------------------------------------------------------
(* update_pivots over the bar windows of successive cycles                 *)

\* the most klines one request of findSignal returns: those of 25 periods
MaxWindow == (25 * TRADING_FREQUENCY_MS) \div KlineMs + 1

\* update_pivots(coin_data, pivots) on a window of consecutive klines
DetectCall ==
    /\ \E a \in DOMAIN Market, n \in 0..MaxWindow :
         /\ a + n - 1 <= Len(Market)
         /\ pivots' = UpdatePivots(SubSeq(Market, a, a + n - 1), pivots)
    /\ UNCHANGED <<now, cycles, pivots_db, opps_db, opportunities, new_trades,
                   trend, spc, oidx, entries, matched, trades_db, orders, handler>>

DetectorInit ==
    /\ LoopIdle
    /\ trades_db = << >>
    /\ orders = << >>
    /\ trades = << >>
    /\ pc = "idle"
    /\ idx = 1
    /\ calls = << >>
    /\ outcome = "init"
    /\ bar = 0
    /\ passes = 0
    /\ sold = [id \in 1..2 |-> 0]
    /\ req = NoRequest
    /\ now = Market[Len(Market)].timestamp
    /\ cycles = 0
    /\ pivots_db = {}
    /\ opps_db = {}
    /\ pivots = << >>
    /\ opportunities = << >>
    /\ new_trades = << >>
    /\ trend = "bullish"
    /\ spc = "idle"
    /\ oidx = 1
    /\ entries = << >>
    /\ matched = << >>

DetectorNext ==
    \/ DetectCall
    \/ MatchCall
    \/ StoreAndFetch

SpecDetector == DetectorInit /\ [][DetectorNext]_vars

\* C12: no two pivots of the asset's in-memory list and no two rows of its
\* pivots table share (timestamp, type), after any sequence of update_pivots
\* calls and pivot upserts.
C12_PivotKeysUnique ==
    /\ \A i \in DOMAIN pivots, j \in DOMAIN pivots :
         PivotKey(pivots[i]) = PivotKey(pivots[j]) => i = j
    /\ \A p \in pivots_db, q \in pivots_db :
         PivotKey(p) = PivotKey(q) => p = q

\* a pivot is in the table and, flagged by the matcher since, once in the
\* list, where update_pivots meets it again on every window holding its bar
C12_Witness ==
    /\ Len(pivots) >= 4
    /\ \E p \in pivots_db :
         /\ ~p.is_supported
         /\ \E i \in DOMAIN pivots :
              PivotKey(pivots[i]) = PivotKey(p) /\ pivots[i].is_supported

\* C13: update_pivots removes and alters no pivot: over a call on any bar
\* window every pivot of the list is in the list afterwards with the same
\* timestamp, price, type and is_supported.
C13_PivotsOnlyGrow ==
    [][ (cycles' = cycles /\ pivots_db' = pivots_db) =>
          \A i \in DOMAIN pivots :
              \E j \in DOMAIN pivots' : pivots'[j] = pivots[i] ]_vars

\* a list holding a flagged pivot has grown by a call on a further window
C13_Witness ==
    /\ \E i \in DOMAIN pivots, j \in DOMAIN pivots :
         /\ i < j
         /\ pivots[i].is_supported
         /\ ~pivots[j].is_supported
         /\ pivots[j].timestamp > pivots[i].timestamp + 2 * KlineMs
    /\ cycles >= 1

----------------------------------------------------------------------------
(* The upserts of the store, datastore.py                                  *)

\* rows handed to insert_pivots: two keys, two prices, flagged or not
PivotInputs ==
    {[Pivot(ts, price, "low") EXCEPT !.is_supported = f] :
        ts \in {KlineMs, 2 * KlineMs}, price \in {100000, 101000}, f \in BOOLEAN}

\* rows handed to insert_opportunities: two keys, fresh, with a minimum, or
\* ordered
OpportunityInputs ==
    LET fresh == {NewOpportunity(Pivot(KlineMs, 100000, "low"),
                                 Pivot(2 * KlineMs, price, "low")) :
                      price \in {100000, 101000}}
    IN fresh
         \cup {[o EXCEPT !.minimum = 99500, !.end = @ + TIME_EXTEND_MS,
                         !.extrema_timestamp = 3 * KlineMs] : o \in fresh}
         \cup {[o EXCEPT !.action = "BUY"] : o \in fresh}

\* rows handed to insert_trades: two order ids, as created and as entered
TradeInputs ==
    LET fresh == {NewTrade(ScenarioD, oid, q) : oid \in 1..2, q \in Quantities}
    IN fresh \cup {[t EXCEPT !.entry = 1, !.tp_order_ids = << 3, 4, 5 >>] : t \in fresh}

\* the argument lists of a call: up to two rows
Lists(S) == {<< >>} \cup {<< a >> : a \in S} \cup {<< a, b >> : a \in S, b \in S}

\* db.insert_pivots(coin, pivots)
InsertPivotsCall ==
    /\ \E ps \in Lists(PivotInputs) : pivots_db' = InsertPivots(pivots_db, ps)
    /\ UNCHANGED <<now, cycles, opps_db, pivots, opportunities, new_trades, trend,
                   spc, oidx, entries, matched, trades_db, orders, handler>>

\* db.insert_opportunities(coin, opportunities)
InsertOpportunitiesCall ==
    /\ \E os \in Lists(OpportunityInputs) :
         opps_db' = InsertOpportunities(opps_db, os)
    /\ UNCHANGED <<now, cycles, pivots_db, pivots, opportunities, new_trades,
                   trend, spc, oidx, entries, matched, trades_db, orders, handler>>

\* db.insert_trades(trades)
InsertTradesCall ==
    /\ \E ts \in Lists(TradeInputs) : trades_db' = InsertTrades(trades_db, ts)
    /\ UNCHANGED <<now, cycles, pivots_db, opps_db, pivots, opportunities,
                   new_trades, trend, spc, oidx, entries, matched, orders, handler>>

StoreNext ==
    \/ InsertPivotsCall
    \/ InsertOpportunitiesCall
    \/ InsertTradesCall

\* the tables are empty after SQLiteDataStore.initialize
SpecStore == DetectorInit /\ [][StoreNext]_vars

OppKey(o) == << o.start, o.support_line >>

\* C14: upserts are idempotent and keyed: insert_pivots,
\* insert_opportunities and insert_trades applied twice with the same list
\* leave the table as applied once, and no table holds two rows with the
\* same key ((timestamp, type), (start, support_line), order_id).
C14_UpsertIdempotentKeyed ==
    /\ \A ps \in Lists(PivotInputs) :
         InsertPivots(InsertPivots(pivots_db, ps), ps) = InsertPivots(pivots_db, ps)
    /\ \A os \in Lists(OpportunityInputs) :
         InsertOpportunities(InsertOpportunities(opps_db, os), os)
            = InsertOpportunities(opps_db, os)
    /\ \A ts \in Lists(TradeInputs) :
         InsertTrades(InsertTrades(trades_db, ts), ts) = InsertTrades(trades_db, ts)
    /\ \A p \in pivots_db, q \in pivots_db : PivotKey(p) = PivotKey(q) => p = q
    /\ \A a \in opps_db, b \in opps_db : OppKey(a) = OppKey(b) => a = b
    /\ \A i \in DOMAIN trades_db, j \in DOMAIN trades_db :
         trades_db[i].order_id = trades_db[j].order_id => i = j

\* every table holds two keys, each with a row that replaced an earlier one
C14_Witness ==
    /\ Cardinality(pivots_db) = 2
    /\ \A p \in pivots_db : p.is_supported
    /\ Cardinality(opps_db) = 2
    /\ \A o \in opps_db : o.action = "BUY"
    /\ Len(trades_db) = 2
    /\ \A i \in DOMAIN trades_db : trades_db[i].entry = 1

----------------------------------------------------------------------------
(* main_loop and its worker pool, main.py                                  *)

signal == <<now, pivots_db, opps_db, pivots, opportunities, new_trades, spc,
            oidx, entries, matched, trades_db, orders, trades, pc, idx, calls,
            outcome, bar, passes, sold, req>>

\* a future is collected whatever its task is doing
Submitted(s) == s # "idle"

\* future.result() and the executor's shutdown return for a task that has
\* returned, normally or after its except clause
Finished(s) == s \in {"done", "failed"}

\* an exception of a worker ends the cycle of main_loop
AbortCycle(m) == "sleep"

\* run_find_signal's except clause logs the error: main_loop stays where it is
OnWorkerException(m) == m

\* coins_to_process built from market_info["TradePairs"], in the dict's order
CoinLists ==
    {<< a >> : a \in Assets}
      \cup {c \in Assets \X Assets : c[1] # c[2]}

\* while True: check_trend_conditions is "volatile": sleep and continue
CycleVolatile ==
    /\ mpc = "top"
    /\ cycles < MaxCycles
    /\ trend' = "volatile"
    /\ mpc' = "sleep"
    /\ coins' = << >>
    /\ fi' = 1
    /\ task' = [a \in Assets |-> "idle"]
    /\ handled' = 0
    /\ UNCHANGED <<cycles, signal>>

\* while True: check_trend_conditions is bullish or bearish
CycleTrend ==
    /\ mpc = "top"
    /\ cycles < MaxCycles
    /\ \E t \in {"bullish", "bearish"} : trend' = t
    /\ mpc' = "market"
    /\ coins' = << >>
    /\ fi' = 1
    /\ task' = [a \in Assets |-> "idle"]
    /\ handled' = 0
    /\ UNCHANGED <<cycles, signal>>

\* get_exchange_info returns None (market_info["IsRunning"] raises, caught by
\* the outer except), IsRunning is false, or no /USD pair is listed
MarketUnavailable ==
    /\ mpc = "market"
    /\ mpc' = "sleep"
    /\ UNCHANGED <<coins, fi, task, handled, cycles, trend, signal>>

\* the market runs and lists /USD pairs
MarketOpen ==
    /\ mpc = "market"
    /\ \E cs \in CoinLists : coins' = cs
    /\ mpc' = "submit"
    /\ fi' = 1
    /\ UNCHANGED <<task, handled, cycles, trend, signal>>

\* executor.submit(run_find_signal, ...) for the next coin
Submit ==
    /\ mpc = "submit"
    /\ task' = [task EXCEPT ![coins[fi]] = "pending"]
    /\ IF fi = Len(coins)
         THEN mpc' = "result" /\ fi' = 1
         ELSE mpc' = mpc /\ fi' = fi + 1
    /\ UNCHANGED <<coins, handled, cycles, trend, signal>>

\* a pool thread takes the task (max_threads = 10 exceeds the coins)
WorkerStart ==
    /\ \E a \in Assets :
         /\ task[a] = "pending"
         /\ task' = [task EXCEPT ![a] = "running"]
    /\ UNCHANGED <<mpc, coins, fi, handled, cycles, trend, signal>>

\* findSignal returns
WorkerReturn ==
    /\ \E a \in Assets :
         /\ task[a] = "running"
         /\ task' = [task EXCEPT ![a] = "done"]
    /\ UNCHANGED <<mpc, coins, fi, handled, cycles, trend, signal>>

\* findSignal raises
WorkerRaise ==
    /\ \E a \in Assets :
         /\ task[a] = "running"
         /\ task' = [task EXCEPT ![a] = "raised"]
    /\ UNCHANGED <<mpc, coins, fi, handled, cycles, trend, signal>>

\* run_find_signal: except Exception: logger.error
WorkerCatch ==
    /\ \E a \in Assets :
         /\ task[a] = "raised"
         /\ task' = [task EXCEPT ![a] = "failed"]
    /\ mpc' = OnWorkerException(mpc)
    /\ UNCHANGED <<coins, fi, handled, cycles, trend, signal>>

\* for future in futures: future.result()
Result ==
    /\ mpc = "result"
    /\ Finished(task[coins[fi]])
    /\ IF fi = Len(coins)
         THEN mpc' = "shutdown" /\ fi' = 1
         ELSE mpc' = mpc /\ fi' = fi + 1
    /\ UNCHANGED <<coins, task, handled, cycles, trend, signal>>

\* leaving the with block: executor.shutdown(wait=True)
Shutdown ==
    /\ mpc = "shutdown"
    /\ \A a \in Assets : task[a] # "idle" => Finished(task[a])
    /\ mpc' = "handler"
    /\ UNCHANGED <<coins, fi, task, handled, cycles, trend, signal>>

\* coins_handler(execute_time, market_info) is called
HandlerStart ==
    /\ mpc = "handler"
    /\ mpc' = "managing"
    /\ handled' = handled + 1
    /\ UNCHANGED <<coins, fi, task, cycles, trend, signal>>

\* coins_handler returns, or raises into the outer except
HandlerEnd ==
    /\ mpc = "managing"
    /\ mpc' = "sleep"
    /\ UNCHANGED <<coins, fi, task, handled, cycles, trend, signal>>

\* time.sleep(TRADING_FREQUENCY_MS / 1000), then the next iteration
Sleep ==
    /\ mpc = "sleep"
    /\ mpc' = "top"
    /\ cycles' = cycles + 1
    /\ UNCHANGED <<coins, fi, task, handled, trend, signal>>

MainNext ==
    \/ CycleVolatile
    \/ CycleTrend
    \/ MarketUnavailable
    \/ MarketOpen
    \/ Submit
    \/ WorkerStart
    \/ WorkerReturn
    \/ WorkerRaise
    \/ WorkerCatch
    \/ Result
    \/ Shutdown
    \/ HandlerStart
    \/ HandlerEnd
    \/ Sleep

SpecMain == DetectorInit /\ [][MainNext]_vars

InCoins(a) == \E i \in DOMAIN coins : coins[i] = a

\* C15: an exception raised by one asset's findSignal is caught in that
\* asset's worker: at the end of such a cycle every submitted task has
\* finished (returned, or failed in its own worker) and coins_handler was
\* invoked in the cycle.
C15_FailureIsolated ==
    (mpc = "sleep" /\ \E a \in Assets : task[a] \in {"raised", "failed"})
       => /\ handled = 1
          /\ \A a \in Assets : InCoins(a) => task[a] \in {"done", "failed"}

\* one asset's findSignal raised, the other asset's returned, and the
\* cycle ended after coins_handler
C15_Witness ==
    /\ mpc = "sleep"
    /\ handled = 1
    /\ \E a \in Assets, b \in Assets : task[a] = "failed" /\ task[b] = "done"

\* C16: while coins_handler runs, no signal task submitted in the cycle is
\* pending, running or in its except clause, whatever the interleaving.
C16_HandlerAfterTasks ==
    mpc \in {"handler", "managing"}
       => \A a \in Assets :
            IF InCoins(a) THEN task[a] \in {"done", "failed"} ELSE task[a] = "idle"

\* coins_handler runs in a cycle that submitted two tasks, both returned
C16_Witness ==
    /\ mpc = "managing"
    /\ Len(coins) = 2
    /\ \A a \in Assets : task[a] = "done"

\* C17: in every cycle of main_loop coins_handler is invoked exactly once:
\* when the cycle reaches its sleep, one invocation has been made.
C17_HandlerOncePerCycle == mpc = "sleep" => handled = 1

----------------------------------------------------------------------------
(* Error handling of can_trade and coins_handler                           *)

\* C18: when can_trade sizes an opportunity whose range is invalid
\* (maximum <= minimum, including minimum = maximum = 0) it sends no order
\* for it.
C18_InvalidRangeSkipped ==
    [][ (Sizable /\ Scanned.maximum <= Scanned.minimum) => orders' = orders ]_vars

\* C19: a broker call that yielded no result is a no-op for its step: the
\* pass of coins_handler is not aborted by it and goes on with the
\* remaining trades.
C19_NoResultIsNoOp ==
    (\E c \in DOMAIN calls : calls[c].res = "NONE") => pc # "aborted"

\* C20: can_trade never modifies a field of an opportunity whose action is
\* not "N/A", and a stored opportunity with action BUY is never overwritten
\* with different values by a later cycle.
C20_OrderedOpportunityFrozen ==
    [][ /\ (spc = "loop" /\ spc' \in {"loop", "aborted"}) =>
             \A i \in DOMAIN opportunities :
                 opportunities[i].action # "N/A" => opportunities'[i] = opportunities[i]
        /\ \A r \in opps_db : r.action = "BUY" => r \in opps_db' ]_vars

\* a later cycle fetched a stored BUY opportunity, can_trade has passed it
\* and the run has placed no order
C20_Witness ==
    /\ spc = "loop"
    /\ oidx > 1
    /\ opportunities[oidx - 1].action = "BUY"
    /\ opportunities[oidx - 1] \in opps_db
    /\ new_trades = << >>

----------------------------------------------------------------------------
(* can_trade over given opportunities                                      *)

\* an opportunity with the range r and the action a, past its extrema scan
SizerOpp(r, a) ==
    [ support_line      |-> r.support_line,
      minimum           |-> r.minimum,
      maximum           |-> r.maximum,
      relative_pivot    |-> r.support_line,
      action            |-> a,
      start             |-> 3 * KlineMs,
      end               |-> 3 * KlineMs + SUPPORT_LINE_TIMEFRAME + TIME_EXTEND_MS,
      extrema_timestamp |-> 4 * KlineMs ]

\* the opportunities handed to can_trade: the ranges of Ranges, a second
\* matured range, one never scanned (minimum = maximum = 0), one ordered
SizerOpps ==
    {SizerOpp(r, "N/A") : r \in Ranges}
      \cup {SizerOpp([minimum |-> 99500, maximum |-> 101300,
                      support_line |-> 100150], "N/A"),
            SizerOpp([minimum |-> 0, maximum |-> 0, support_line |-> 100000], "N/A"),
            SizerOpp(ScenarioD, "BUY")}

\* can_trade(coin, pivots, opportunities, trades, trend, ...) is entered
\* with a pivot older than the opportunities
SizerInit ==
    /\ LoopIdle
    /\ trades_db = << >>
    /\ orders = << >>
    /\ trades = << >>
    /\ pc = "idle"
    /\ idx = 1
    /\ calls = << >>
    /\ outcome = "init"
    /\ bar = 0
    /\ passes = 0
    /\ sold = [id \in 1..2 |-> 0]
    /\ req = NoRequest
    /\ now = StartTime
    /\ cycles = 1
    /\ pivots_db = {}
    /\ opps_db = {}
    /\ pivots = << Pivot(KlineMs, 100000, "low") >>
    /\ opportunities \in Lists(SizerOpps) \ {<< >>}
    /\ new_trades = << >>
    /\ trend \in {"bullish", "bearish"}
    /\ spc = "loop"
    /\ oidx = 1
    /\ entries = << >>
    /\ matched = << >>

SizerNext ==
    \/ OppSkip
    \/ OppBalanceNone
    \/ OppBalanceRefused
    \/ OppZeroPrice
    \/ OppPlaceNone
    \/ OppRejected
    \/ OppOrdered
    \/ SigEnd
    \/ SigAborted

SpecSizer == SizerInit /\ [][SizerNext]_vars

\* C21: for a matured opportunity (maximum M > minimum m > 0) and an
\* accepted order, can_trade submits a LIMIT BUY at m + 0.618 * (M - m) for
\* the quantity nearest to (free balance * 1%) / entry price and creates a
\* Trade with entry = 0, no take-profit ids, profit_level
\* [r, 1.618 r, 2.618 r] and stop_loss [(m + support_line) / 2, m + 0.618 r, r],
\* r = M - m.
C21_SizingFormula ==
    [][ Len(entries') = Len(entries) + 1 =>
          LET o     == opportunities'[oidx]
              usd   == entries'[Len(entries')].usd
              t     == new_trades'[Len(new_trades')]
              ord   == orders'[Len(orders')]
              r     == o.maximum - o.minimum
              price == o.minimum + (618 * r) \div 1000
          IN (o.maximum > o.minimum /\ o.minimum > 0) =>
               /\ Len(new_trades') = Len(new_trades) + 1
               /\ Len(orders') = Len(orders) + 1
               /\ ord.side = "BUY" /\ ord.type = "LIMIT"
               /\ ord.price = price
               /\ 2 * Abs(ord.qty * 100 * price - usd) <= 100 * price
               /\ t = [ order_id     |-> Len(orders'),
                        quantity     |-> ord.qty,
                        stop_loss    |-> << (o.minimum + o.support_line) \div 2,
                                            o.minimum + (618 * r) \div 1000, r >>,
                        profit_level |-> << r, (1618 * r) \div 1000,
                                            (2618 * r) \div 1000 >>,
                        tp_order_ids |-> << >>,
                        entry        |-> 0 ]
               /\ o.action = "BUY" ]_vars

\* the range 90..110 was ordered: entry 102.36, profit_level [20, 32.36, 52.36]
C21_Witness ==
    /\ new_trades # << >>
    /\ orders # << >>
    /\ orders[Len(orders)].price = 102360
    /\ orders[Len(orders)].qty = 8
    /\ new_trades[Len(new_trades)].profit_level = << 20000, 32360, 52360 >>
    /\ new_trades[Len(new_trades)].stop_loss = << 95000, 102360, 20000 >>
    /\ new_trades[Len(new_trades)].entry = 0
    /\ new_trades[Len(new_trades)].tp_order_ids = << >>

----------------------------------------------------------------------------
(* The opportunities update_support_resistance emits                       *)

\* a pair the matcher takes: same type, both unsupported, no pivot of that
\* type between them, within the timeframe and the price tolerance
AdjacentPair(P, i, j) ==
    /\ i < j
    /\ P[i].type = P[j].type
    /\ ~P[i].is_supported
    /\ ~P[j].is_supported
    /\ \A k \in (i + 1)..(j - 1) : P[k].type # P[i].type
    /\ Abs(P[j].timestamp - P[i].timestamp) <= SUPPORT_LINE_TIMEFRAME
    /\ P[i].price # 0
    /\ Abs(P[j].price - P[i].price) * 1000 <= MAXIMUM_PERCENTAGE_DIFFERENCE * P[i].price

\* the position of the pivot with the key in the list
IndexOf(P, key) == CHOOSE i \in DOMAIN P : PivotKey(P[i]) = key

----------------------------------------------------------------------------
(* The pivots update_pivots finds in a window                              *)

\* a symmetric V of eleven klines around its sixth bar (index 5)
VBars ==
    [k \in 1..11 |-> [timestamp |-> k * KlineMs,
                      low       |-> 100000 + 100 * Abs(k - 6),
                      high      |-> 100500 + 100 * Abs(k - 6)]]

\* the windows of consecutive klines update_pivots is called on
Windows ==
    {SubSeq(Market, w[1], w[1] + w[2] - 1) :
        w \in {v \in (DOMAIN Market) \X (0..MaxWindow) :
                  v[1] + v[2] - 1 <= Len(Market)}} \cup {VBars}

\* candidate c of the window is scanned in a call on the list P: it is not
\* older than two klines before the latest pivot of P
IsScanned(data, P, c) ==
    \/ P = << >>
    \/ P[Len(P)].timestamp <= 0
    \/ data[c].timestamp >= P[Len(P)].timestamp - 2 * KlineMs

\* C23: after update_pivots on a window of at least 2W+1 bars, for every
\* scanned candidate with W bars on both sides the list holds a low pivot at
\* that bar iff its low is <= every low within W bars, and a high pivot iff
\* its high is >= every high within W bars; bars without a full
\* neighbourhood yield no pivot, and a symmetric V of eleven bars gives one
\* low pivot at its middle bar and no high pivot.
C23_PivotIffLocalExtremum ==
    /\ \A data \in Windows :
         LET W == PIVOT_POINT_COMPARE
             R == UpdatePivots(data, pivots)
             full == {c \in DOMAIN data : c - W >= 1 /\ c + W <= Len(data)}
             cand == {c \in full : IsScanned(data, pivots, c)}
         IN /\ Len(R) >= Len(pivots)
            /\ SubSeq(R, 1, Len(pivots)) = pivots
            /\ \A c \in cand :
                 /\ (\E i \in DOMAIN R : /\ R[i].timestamp = data[c].timestamp
                                         /\ R[i].type = "low"
                                         /\ R[i].price = data[c].low)
                      <=> \A k \in (c - W)..(c + W) : data[c].low <= data[k].low
                 /\ (\E i \in DOMAIN R : /\ R[i].timestamp = data[c].timestamp
                                         /\ R[i].type = "high"
                                         /\ R[i].price = data[c].high)
                      <=> \A k \in (c - W)..(c + W) : data[c].high >= data[k].high
            /\ \A i \in (Len(pivots) + 1)..Len(R) :
                 \E c \in cand : R[i].timestamp = data[c].timestamp
    /\ UpdatePivots(VBars, << >>) = << Pivot(6 * KlineMs, 100000, "low") >>

\* calls on windows of the market have appended the equal lows of bars 3
\* and 4, the low of bar 7 and the bar-4 pivot of both types
C23_Witness ==
    /\ \E i \in DOMAIN pivots : PivotKey(pivots[i]) = PivotKey(Pivot(3 * KlineMs, 100000, "low"))
    /\ \E i \in DOMAIN pivots : PivotKey(pivots[i]) = PivotKey(Pivot(4 * KlineMs, 100000, "low"))
    /\ \E i \in DOMAIN pivots : PivotKey(pivots[i]) = PivotKey(Pivot(4 * KlineMs, 101000, "high"))
    /\ \E i \in DOMAIN pivots : PivotKey(pivots[i]) = PivotKey(Pivot(7 * KlineMs, 99500, "low"))
    /\ \A i \in DOMAIN pivots : pivots[i].timestamp # 2 * KlineMs

\* what a call appended: none, low, high or both
Found(P, R) ==
    LET types == {R[i].type : i \in (Len(P) + 1)..Len(R)}
    IN IF types = {} THEN "none"
       ELSE IF types = {"low"} THEN "low"
       ELSE IF types = {"high"} THEN "high"
       ELSE "both"

\* C24: every call of update_pivots returns the classification of what it
\* appended: none, low, high or both.
C24_ReturnsClassification ==
    \A data \in Windows :
        UpdatePivotsReturn(data, pivots) = Found(pivots, UpdatePivots(data, pivots))

----------------------------------------------------------------------------
(* The stop check and the quantities sold by coins_handler                 *)

\* C25: the active-stop index len(stop_loss) - remaining is a valid index
\* of stop_loss also when remaining = 0: no pass is aborted at the stop
\* check of a Trade whose rungs are all consumed.
C25_StopIndexValid ==
    ~ /\ pc = "aborted"
      /\ \A c \in DOMAIN calls : calls[c].res # "NONE"
      /\ trades[idx].entry = 1
      /\ Remaining(trades[idx].profit_level) = 0

\* the quantity of the MARKET sell among the calls of an iteration
MarketQty(cs) ==
    IF \E c \in DOMAIN cs : cs[c].op = "place_market"
    THEN cs[CHOOSE c \in DOMAIN cs : cs[c].op = "place_market"].qty
    ELSE 0

\* coins_handler with the ledger of the MARKET sells it issues
LedgerNext ==
    \/ PassBegin /\ UNCHANGED <<sigvars, loopvars, sold, req>>
    \/ SkipClosed /\ UNCHANGED <<sigvars, loopvars, sold, req>>
    \/ EntryQueryFails /\ UNCHANGED <<sigvars, loopvars, sold, req>>
    \/ EntryNotFilled /\ UNCHANGED <<sigvars, loopvars, sold, req>>
    \/ PlaceTakeProfits /\ UNCHANGED <<sigvars, loopvars, sold, req>>
    \/ AlreadyEntered /\ UNCHANGED <<sigvars, loopvars, sold, req>>
    \/ NoBarData /\ UNCHANGED <<sigvars, loopvars, sold, req>>
    \/ FillQueryFails /\ UNCHANGED <<sigvars, loopvars, sold, req>>
    \/ StopIndexFails /\ UNCHANGED <<sigvars, loopvars, sold, req>>
    \/ /\ ManageLadder
       /\ sold' = [sold EXCEPT ![trades[idx].order_id] = @ + MarketQty(calls')]
       /\ UNCHANGED <<sigvars, loopvars, req>>
    \/ PassEnd /\ UNCHANGED <<sigvars, loopvars, sold, req>>
    \/ PassAborted /\ UNCHANGED <<sigvars, loopvars, sold, req>>
    \/ VenueFill /\ UNCHANGED <<sigvars, loopvars, sold, req>>

SpecLedger == Init /\ [][LedgerNext]_vars

\* the quantity of the take-profit sells of the ids that the venue filled
RECURSIVE FilledQty(_)
FilledQty(ids) ==
    IF ids = << >> THEN 0
    ELSE (IF orders[Head(ids)].status = "FILLED" THEN orders[Head(ids)].qty ELSE 0)
           + FilledQty(Tail(ids))

\* C26: over the lifetime of a Trade the quantity sold for it, its filled
\* take-profit sells plus all MARKET sells issued for it, never exceeds
\* Trade.quantity.
C26_SoldWithinQuantity ==
    \A i \in DOMAIN trades_db :
        FilledQty(trades_db[i].tp_order_ids) + sold[trades_db[i].order_id]
            <= trades_db[i].quantity

----------------------------------------------------------------------------
(* What a findSignal run leaves in the store                               *)

\* C27: at the end of every findSignal run, completed or aborted, each
\* entry order can_trade placed has a Trade with its order id in the store
\* and its opportunity is stored with action BUY.
C27_PlacedOrderPersisted ==
    spc = "idle" =>
        \A e \in DOMAIN entries :
            /\ \E i \in DOMAIN trades_db : trades_db[i].order_id = e
            /\ \E o \in opps_db :
                   /\ o.start = entries[e].start
                   /\ o.support_line = entries[e].support_line
                   /\ o.action = "BUY"

----------------------------------------------------------------------------
(* What a coins_handler pass leaves in the store                           *)

\* C28: the take-profit LIMIT sells of a Trade are placed at most once:
\* when a pass is over, saved or aborted, every LIMIT sell resting at the
\* venue is listed in the tp_order_ids of a stored Trade with entry = 1, so
\* that no later pass places the legs again.
C28_TakeProfitsPlacedOnce ==
    pc = "idle" =>
        \A o \in DOMAIN orders :
            orders[o].side = "SELL" =>
                \E i \in DOMAIN trades_db :
                    /\ trades_db[i].entry = 1
                    /\ \E j \in DOMAIN trades_db[i].tp_order_ids :
                           trades_db[i].tp_order_ids[j] = o

\* C29: when a coins_handler pass is over, every Trade fetched for it is in
\* the store with the state the pass gave it (entry, tp_order_ids,
\* profit_level, stop_loss), whichever branch was taken for it.
C29_PassUpsertsTrades ==
    [][(pc # "idle" /\ pc' = "idle") =>
          \A i \in DOMAIN trades :
              \E j \in DOMAIN trades_db' : trades_db'[j] = trades[i]]_vars

\* C30: the take-profit LIMIT sells of a Trade are placed only in an
\* iteration whose entry query reports FILLED; an iteration over a Trade
\* with entry = 0 whose entry order is not FILLED leaves the Trade as it is
\* (entry = 0, tp_order_ids empty), places and cancels no order and fetches
\* no bar: its only broker call is the entry query.
C30_TakeProfitsOnlyWhenFilled ==
    [][/\ (pc = "enter" /\ \E c \in DOMAIN calls' : calls'[c].op = "place_limit")
            => /\ orders[trades[idx].order_id].status = "FILLED"
               /\ calls'[1] = Call("query", trades[idx].order_id, 0, "FILLED")
       /\ (/\ InLoop
           /\ trades[idx].entry = 0
           /\ orders[trades[idx].order_id].status # "FILLED")
            => /\ trades' = trades
               /\ trades[idx].tp_order_ids = << >>
               /\ orders' = orders
               /\ \A c \in DOMAIN calls' : calls'[c].op = "query"
               /\ pc' # "manage"
               /\ bar' = 0]_vars

\* a pass placed the legs of a filled Trade and left a waiting one alone
C30_Witness ==
    /\ outcome = "waiting"
    /\ idx > 2
    /\ trades[idx - 1].entry = 0
    /\ trades[idx - 1].tp_order_ids = << >>
    /\ orders[trades[idx - 1].order_id].status = "PENDING"
    /\ \E i \in 1..(idx - 2) :
           /\ trades[i].entry = 1
           /\ Len(trades[i].tp_order_ids) = 3
           /\ trades_db[i].entry = 0

----------------------------------------------------------------------------
(* The bullish extrema scan of can_trade over growing pivot lists          *)

\* the pivots that arrive after the opportunity's pair: a low 0.5% under
\* the support line, a deeper low, a high under the line's highs and a
\* higher high
ScanPivots ==
    { Pivot(3 * KlineMs, 99500, "low"), Pivot(5 * KlineMs, 99000, "low"),
      Pivot(4 * KlineMs, 100500, "high"), Pivot(6 * KlineMs, 101500, "high") }

\* the pair of lows the opportunity was made of, alone or after a high
ScanLists ==
    LET pair == << [Pivot(KlineMs, 100000, "low") EXCEPT !.is_supported = TRUE],
                   [Pivot(2 * KlineMs, 100000, "low") EXCEPT !.is_supported = TRUE] >>
    IN { pair, << Pivot(KlineMs, 101000, "high") >> \o pair }

\* can_trade is about to scan the opportunity the matcher made of the pair
ScanInit ==
    /\ LoopIdle
    /\ trades_db = << >>
    /\ orders = << >>
    /\ trades = << >>
    /\ pc = "idle"
    /\ idx = 1
    /\ calls = << >>
    /\ outcome = "init"
    /\ bar = 0
    /\ passes = 0
    /\ sold = [id \in 1..2 |-> 0]
    /\ req = NoRequest
    /\ now = StartTime
    /\ cycles = 0
    /\ pivots_db = {}
    /\ opps_db = {}
    /\ pivots \in ScanLists
    /\ opportunities = << NewOpportunity(Pivot(KlineMs, 100000, "low"),
                                         Pivot(2 * KlineMs, 100000, "low")) >>
    /\ new_trades = << >>
    /\ trend = "bullish"
    /\ spc = "loop"
    /\ oidx = 1
    /\ entries = << >>
    /\ matched = << >>

\* update_pivots appends a newly confirmed pivot, later than the list's last
PivotArrives ==
    /\ Len(pivots) < MaxPivots + 1
    /\ \E p \in ScanPivots :
         /\ p.timestamp > pivots[Len(pivots)].timestamp
         /\ pivots' = Append(pivots, p)
    /\ UNCHANGED <<now, cycles, pivots_db, opps_db, opportunities, new_trades,
                   trend, spc, oidx, entries, matched, trades_db, orders, handler>>

\* one cycle's scan of the open opportunity (its action is still "N/A")
ScanCall ==
    /\ cycles < MaxCycles
    /\ InCanTrade
    /\ Current.action = "N/A"
    /\ opportunities' = [opportunities EXCEPT ![oidx] = Scanned]
    /\ cycles' = cycles + 1
    /\ UNCHANGED <<now, pivots_db, opps_db, pivots, new_trades, trend, spc,
                   oidx, entries, matched, trades_db, orders, handler>>

ScanNext ==
    \/ PivotArrives
    \/ ScanCall

SpecScan == ScanInit /\ [][ScanNext]_vars

\* C31: a scan that sets the opportunity's maximum takes it from a pivot
\* that comes after the pivot recorded as its minimum and whose price is
\* above relative_pivot: the pivot that sets minimum never sets maximum.
C31_MaximumAfterMinimum ==
    [][(cycles' = cycles + 1 /\ Current'.maximum # Current.maximum) =>
          \E i \in DOMAIN pivots, k \in DOMAIN pivots :
              /\ i < k
              /\ pivots[i].type = "low"
              /\ pivots[i].price = Current'.minimum
              /\ pivots[i].timestamp = Current'.extrema_timestamp
              /\ pivots[k].price = Current'.maximum
              /\ pivots[k].price > Current'.relative_pivot]_vars

\* the pivots the bullish scan of opportunity o does not skip
ScanCandidates(o, P) ==
    {i \in DOMAIN P : P[i].timestamp >= o.start
                      /\ P[i].timestamp >= o.extrema_timestamp}

\* C32: when the pivot list holds no pivot at or after both the start and
\* the extrema_timestamp of a pending opportunity (action "N/A", no maximum
\* yet), can_trade's iteration for it changes none of its fields (its
\* action stays "N/A"), submits no order and appends no Trade.
C32_NoPivotIsNoOp ==
    [][(/\ InCanTrade
        /\ Current.action = "N/A"
        /\ Current.maximum = 0
        /\ ScanCandidates(Current, pivots) = {}
        /\ oidx' = oidx + 1)
          => /\ opportunities'[oidx] = Current
             /\ orders' = orders
             /\ new_trades' = new_trades]_vars

\* C33: the scan is idempotent on an unchanged pivot list: once an open
\* opportunity (action "N/A", no maximum yet) has been scanned, scanning it
\* again over the same list changes neither its end nor its
\* extrema_timestamp.
C33_ScanIdempotent ==
    (InCanTrade /\ Current.action = "N/A") =>
        LET once  == Extrema(Current, pivots, 1)
            twice == Extrema(once, pivots, 1)
        IN once.maximum = 0 =>
             /\ twice.end = once.end
             /\ twice.extrema_timestamp = once.extrema_timestamp

----------------------------------------------------------------------------
(* The opportunities a cycle loads                                         *)

\* C34: a stored opportunity with action "N/A" whose window has not ended
\* at the execution time of the next findSignal run (end later than that
\* time, start within the run's look-back) is in the list the run works on.
C34_OpenOpportunityLoaded ==
    [][(spc = "idle" /\ spc' \in {"loop", "save"}) =>
          \A o \in opps_db :
              (/\ o.action = "N/A"
               /\ o.end > now'
               /\ o.start >= now' - 7 * SUPPORT_LINE_TIMEFRAME)
                => \E i \in DOMAIN opportunities' :
                       OppKey(opportunities'[i]) = OppKey(o)]_vars

\* C35: an iteration of can_trade that ends without an accepted order (the
\* venue rejected it) leaves the opportunity's action at "N/A" and appends
\* no Trade; and the opportunity, stored with action "N/A", is in the list
\* the next findSignal run sizes, where it is not skipped.
C35_RejectedRetriedNextCycle ==
    [][/\ (/\ Sizable
           /\ oidx' = oidx + 1
           /\ orders' = orders)
            => /\ opportunities'[oidx].action = "N/A"
               /\ new_trades' = new_trades
       /\ (spc = "idle" /\ spc' \in {"loop", "save"})
            => \A o \in opps_db :
                   (/\ o.action = "N/A"
                    /\ o.start >= now' - 7 * SUPPORT_LINE_TIMEFRAME)
                     => /\ spc' = "loop"
                        /\ \E i \in DOMAIN opportunities' :
                               /\ OppKey(opportunities'[i]) = OppKey(o)
                               /\ opportunities'[i].action = "N/A"]_vars

----------------------------------------------------------------------------
(* The pairs update_support_resistance refuses                             *)

\* two lows 3% apart; a pair whose first pivot is priced zero
ScenarioC == << Pivot(KlineMs, 100000, "low"), Pivot(2 * KlineMs, 103000, "low") >>
ZeroPriced == << Pivot(KlineMs, 0, "low"), Pivot(2 * KlineMs, 0, "low") >>

\* the matcher's result on a pivot list with no opportunity yet
Matched(P) ==
    UpdateSupportResistance([pivots |-> P, opportunities |-> << >>,
                             matched |-> << >>])

\* C36: update_support_resistance emits no opportunity for a pair whose
\* prices differ by more than MAXIMUM_PERCENTAGE_DIFFERENCE of the first,
\* whose timestamps are more than SUPPORT_LINE_TIMEFRAME apart, or whose
\* first pivot is priced zero: every pair a call takes is inside the three
\* limits, an opportunity is added only with a pair, and a pivot's
\* is_supported flag changes only when it is in a pair taken by the call.
\* Two lows 3% apart, and a zero-priced pair, are left as they are.
C36_NoOpportunityOutsideTolerance ==
    [][cycles' = cycles + 1 =>
         LET new == (Len(matched) + 1)..Len(matched')
         IN /\ \A m \in new :
                 LET pi == pivots[IndexOf(pivots, matched'[m][1])]
                     pj == pivots[IndexOf(pivots, matched'[m][2])]
                 IN /\ pi.price # 0
                    /\ Abs(pj.price - pi.price) * 1000
                         <= MAXIMUM_PERCENTAGE_DIFFERENCE * pi.price
                    /\ Abs(pj.timestamp - pi.timestamp) <= SUPPORT_LINE_TIMEFRAME
            /\ Len(opportunities') = Len(opportunities) + Cardinality(new)
            /\ Len(pivots') = Len(pivots)
            /\ \A k \in DOMAIN pivots :
                 pivots'[k] # pivots[k] =>
                    \E m \in new : PivotKey(pivots[k]) \in {matched'[m][1], matched'[m][2]}
            /\ Matched(ScenarioC).pivots = ScenarioC
            /\ Matched(ScenarioC).opportunities = << >>
            /\ Matched(ZeroPriced).pivots = ZeroPriced
            /\ Matched(ZeroPriced).opportunities = << >>]_vars

\* a call paired the two highs while the lows 1% apart, and the lows further
\* apart than the timeframe, stayed unsupported and without an opportunity
C36_Witness ==
    /\ pivots_db = {}
    /\ Len(pivots) = 4
    /\ pivots[1].type = "low" /\ pivots[2].type = "low"
    /\ ~pivots[1].is_supported /\ ~pivots[2].is_supported
    /\ \/ Abs(pivots[2].price - pivots[1].price) * 1000
            > MAXIMUM_PERCENTAGE_DIFFERENCE * pivots[1].price
       \/ Abs(pivots[2].timestamp - pivots[1].timestamp) > SUPPORT_LINE_TIMEFRAME
    /\ pivots[3].type = "high" /\ pivots[4].type = "high"
    /\ pivots[3].is_supported /\ pivots[4].is_supported
    /\ Len(opportunities) = 1

\* the matcher's result on the lists of the current state
MatchedNow ==
    UpdateSupportResistance([pivots |-> pivots, opportunities |-> opportunities,
                             matched |-> matched])

\* C37: the matcher is idempotent: a second update_support_resistance call
\* on the pivot list the first call has just processed, with no new pivot,
\* emits no further opportunity and changes no is_supported flag.
C37_MatcherIdempotent ==
    LET twice == UpdateSupportResistance(MatchedNow)
    IN /\ twice.opportunities = MatchedNow.opportunities
       /\ twice.pivots = MatchedNow.pivots

\* a list on which the first call takes a pair and leaves a refused one
C37_Witness ==
    /\ Len(MatchedNow.opportunities) > Len(opportunities)
    /\ \E i \in DOMAIN pivots : ~MatchedNow.pivots[i].is_supported

----------------------------------------------------------------------------
(* The order of the pivot list                                             *)

\* the list is in non-decreasing order of timestamp
SortedByTimestamp(P) ==
    \A i \in DOMAIN P, j \in DOMAIN P : i < j => P[i].timestamp <= P[j].timestamp

\* C38: an update_pivots call on a pivot list sorted by timestamp leaves
\* the list sorted by non-decreasing timestamp, also when it confirms a
\* pivot inside the re-scan margin of two klines before the latest pivot.
C38_PivotsStaySorted ==
    [][(Len(pivots') > Len(pivots) /\ SortedByTimestamp(pivots))
          => SortedByTimestamp(pivots')]_vars

----------------------------------------------------------------------------
(* update_pivots on unusable input                                         *)

\* the windows of klines that came without their low column
MalformedWindows ==
    { [i \in DOMAIN w |-> [timestamp |-> w[i].timestamp, high |-> w[i].high]]
        : w \in Windows }

\* C39: update_pivots does not return normally on bars that lack the high
\* or the low field, and on an empty or undersized window (fewer than
\* 2W + 1 bars) it leaves the pivot list unchanged and returns "none".
C39_MalformedFailsUndersizedNoOp ==
    /\ \A data \in MalformedWindows :
         Len(data) >= 2 * PIVOT_POINT_COMPARE + 1 =>
            UpdatePivotsReturn(data, pivots) \notin {"none", "None"}
    /\ \A data \in Windows :
         Len(data) < 2 * PIVOT_POINT_COMPARE + 1 =>
            /\ UpdatePivots(data, pivots) = pivots
            /\ UpdatePivotsReturn(data, pivots) = "none"

----------------------------------------------------------------------------
(* Broker requests, roostoo.RoostooClient._request                         *)

RETRIES == 3
BACK_OFF_FACTOR == 2

\* the Retry-After header of a 429 response: absent, a number of seconds,
\* or an HTTP date
RetryAfterValues == {"absent", "0", "5", "Wed, 21 Oct 2015 07:28:00 GMT"}

\* int(header) succeeds on a decimal numeral only
IsInt(h) == h \in {"0", "5"}
IntOf(h) == IF h = "0" THEN 0 ELSE 5

\* what one HTTP attempt ends in: a 2xx response with its JSON body, a 429,
\* another error status, or a requests.exceptions.RequestException
Responses ==
    {[kind |-> k, retry_after |-> "absent"] : k \in {"ok", "error", "exception"}}
      \cup {[kind |-> "429", retry_after |-> h] : h \in RetryAfterValues}

\* _request is called: retry = 0
RequestBegin ==
    /\ req.pc = "idle"
    /\ req' = [req EXCEPT !.pc = "try"]
    /\ UNCHANGED <<pmvars, sigvars, loopvars, sold>>

\* one pass of the while body up to time.sleep, return or break
RequestAttempt ==
    /\ req.pc = "try"
    /\ req.retry < RETRIES
    /\ \E r \in Responses :
         LET tried == [req EXCEPT !.log = Append(@, r)]
         IN req' =
              IF r.kind = "ok"
              THEN [tried EXCEPT !.pc = "returned", !.result = "json"]
              ELSE IF r.kind = "error"
              THEN [tried EXCEPT !.pc = "returned", !.result = "none"]
              ELSE IF r.kind = "exception"
              THEN [tried EXCEPT !.pc = "sleep", !.retry = @ + 1,
                                 !.wait = BACK_OFF_FACTOR ^ (req.retry + 1)]
              ELSE IF r.retry_after = "absent"
              THEN [tried EXCEPT !.pc = "sleep", !.retry = @ + 1,
                                 !.wait = BACK_OFF_FACTOR ^ (req.retry + 1)]
              ELSE IF IsInt(r.retry_after)
              THEN [tried EXCEPT !.pc = "sleep", !.retry = @ + 1,
                                 !.wait = IntOf(r.retry_after)]
              ELSE [tried EXCEPT !.pc = "raised", !.retry = @ + 1]
    /\ UNCHANGED <<pmvars, sigvars, loopvars, sold>>

\* time.sleep(wait_time), then the while test; return None after the loop
RequestSleep ==
    /\ req.pc = "sleep"
    /\ req' = [req EXCEPT !.slept = Append(@, req.wait),
                          !.pc = IF req.retry < RETRIES THEN "try" ELSE "returned",
                          !.result = IF req.retry < RETRIES THEN @ ELSE "none"]
    /\ UNCHANGED <<pmvars, sigvars, loopvars, sold>>

RequestNext ==
    \/ RequestBegin
    \/ RequestAttempt
    \/ RequestSleep

SpecRequest == DetectorInit /\ [][RequestNext]_vars

\* C40: _request makes at most RETRIES HTTP attempts; an attempt follows
\* only a 429 or a request exception, after a wait; the call ends by
\* returning: the response of the first successful attempt, or None when it
\* stopped without one, which after a 429 or an exception happens only
\* once RETRIES attempts are used up.
C40_RequestBounded ==
    LET log  == req.log
        last == log[Len(log)]
    IN /\ Len(log) <= RETRIES
       /\ \A i \in 1..(Len(log) - 1) : log[i].kind \in {"429", "exception"}
       /\ Len(req.slept) >= Len(log) - 1
       /\ req.pc # "raised"
       /\ req.pc = "returned" =>
            /\ req.result = IF last.kind = "ok" THEN "json" ELSE "none"
            /\ last.kind \in {"429", "exception"} => Len(log) = RETRIES

============================================================================
